---------------------------- MODULE Spec2Model ----------------------------
(***************************************************************************)
(* A model of the heuristic resume pipeline: the text cleaner and section  *)
(* segmenter (parsing/extractors/text_cleaner.py), the experience and date *)
(* extraction of the entity extractor (parsing/extractors/                 *)
(* entity_extractor.py, parsing/utils/patterns.py) and the ATS scorer      *)
(* (app/methods/old.py).                                                   *)
(*                                                                         *)
(* A Python str is a sequence of one-character strings.  A regular         *)
(* expression is a tree of nodes matched by the backtracking matcher M,    *)
(* which tries alternatives in the order Python's re module tries them, so *)
(* that the first match found is the match Python reports.                 *)
(***************************************************************************)
EXTENDS Integers, Sequences, FiniteSets, TLC

-----------------------------------------------------------------------------
(* Characters and Python's str predicates.  A character outside ASCII is    *)
(* written by its code point: "u2013" is the en dash.                      *)

UpperSeq == <<"A","B","C","D","E","F","G","H","I","J","K","L","M",
              "N","O","P","Q","R","S","T","U","V","W","X","Y","Z">>
LowerSeq == <<"a","b","c","d","e","f","g","h","i","j","k","l","m",
              "n","o","p","q","r","s","t","u","v","w","x","y","z">>
UpperCh == {UpperSeq[n] : n \in 1..26}
LowerCh == {LowerSeq[n] : n \in 1..26}
DigitCh == {"0","1","2","3","4","5","6","7","8","9"}
\* \w of the re module (letters, digits, underscore)
WordCh == UpperCh \cup LowerCh \cup DigitCh \cup {"_"}
\* \s of the re module, also what str.strip() and str.split() strip
SpaceCh == {" ", "\t", "\n", "\r", "\f", "u00a0"}

ToLowerMap == [c \in UpperCh |-> LowerSeq[CHOOSE n \in 1..26 : UpperSeq[n] = c]]
ToUpperMap == [c \in LowerCh |-> UpperSeq[CHOOSE n \in 1..26 : LowerSeq[n] = c]]
LowerOf(c) == IF c \in UpperCh THEN ToLowerMap[c] ELSE c
UpperOf(c) == IF c \in LowerCh THEN ToUpperMap[c] ELSE c

\* str.lower()
Lower(s) == [n \in 1..Len(s) |-> LowerOf(s[n])]
\* str.isupper(): some cased character, and no lower-case one
IsUpper(s) == /\ \E n \in 1..Len(s) : s[n] \in UpperCh
              /\ \A n \in 1..Len(s) : s[n] \notin LowerCh
\* str.isalpha()
IsAlpha(s) == Len(s) > 0 /\ \A n \in 1..Len(s) : s[n] \in UpperCh \cup LowerCh

\* s[a:b] with 1-based a and exclusive b
Slice(s, a, b) == IF b <= a THEN <<>> ELSE SubSeq(s, a, b - 1)

\* F(v), with v computed before F is entered
Apply(F(_), v) == CHOOSE out \in {F(x) : x \in {v}} : TRUE

\* str.strip()
Strip(s) ==
  LET keep == {n \in 1..Len(s) : s[n] \notin SpaceCh}
  IN  IF keep = {} THEN <<>>
      ELSE SubSeq(s, CHOOSE a \in keep : \A b \in keep : a <= b,
                     CHOOSE a \in keep : \A b \in keep : a >= b)

\* the n-th smallest element of a set of numbers
Nth(set, n) == CHOOSE a \in set : Cardinality({b \in set : b < a}) = n - 1
Min(set) == CHOOSE a \in set : \A b \in set : a <= b
Max(set) == CHOOSE a \in set : \A b \in set : a >= b

\* str.split(sep) for a one-character separator
SplitOn(s, sep) ==
  LET at == {n \in 1..Len(s) : s[n] = sep}
      cut(n) == IF n = 0 THEN 0 ELSE IF n > Cardinality(at) THEN Len(s) + 1 ELSE Nth(at, n)
  IN  [n \in 1..(Cardinality(at) + 1) |-> Slice(s, cut(n - 1) + 1, cut(n))]

\* str.split() with no argument
Words(s) ==
  LET first == {n \in 1..Len(s) : s[n] \notin SpaceCh /\ (n = 1 \/ s[n - 1] \in SpaceCh)}
      last == {n \in 1..Len(s) : s[n] \notin SpaceCh /\ (n = Len(s) \/ s[n + 1] \in SpaceCh)}
  IN  [n \in 1..Cardinality(first) |-> SubSeq(s, Nth(first, n), Nth(last, n))]

RECURSIVE Join(_, _)
\* sep.join(parts)
Join(parts, sep) ==
  IF Len(parts) = 0 THEN <<>>
  ELSE IF Len(parts) = 1 THEN parts[1]
  ELSE parts[1] \o sep \o Join(Tail(parts), sep)

\* str.replace(old, new) for one-character old and new, and str.replace(old, '')
ReplaceCh(s, old, new) == [n \in 1..Len(s) |-> IF s[n] = old THEN new ELSE s[n]]
RemoveCh(s, old) == SelectSeq(s, LAMBDA c : c # old)

\* str.endswith(c), and c in s
EndsWith(s, c) == Len(s) > 0 /\ s[Len(s)] = c
Contains(s, c) == \E n \in 1..Len(s) : s[n] = c

-----------------------------------------------------------------------------
(* Regular expressions.  A node is a record [k, s, sub, n]: its kind, a    *)
(* character set, its sub-patterns and a number.                           *)

Node(k, s, sub, n) == [k |-> k, s |-> s, sub |-> sub, n |-> n]
Ch(set)    == Node("ch", set, <<>>, 0)            \* one character of set
NCh(set)   == Node("nch", set, <<>>, 0)           \* one character not of set
Dot        == NCh({"\n"})                         \* .
Cat(subs)  == Node("cat", {}, subs, 0)            \* concatenation
Alt(subs)  == Node("alt", {}, subs, 0)            \* a|b, tried in order
\* x* and x*? (greedy, lazy) of a one-character x, which is all the source uses
Star(x)    == Node("star", {}, <<x>>, 0)
LStar(x)   == Node("lstar", {}, <<x>>, 0)
Empty      == Cat(<<>>)
Plus(x)    == Cat(<<x, Star(x)>>)                 \* x+
LPlus(x)   == Cat(<<x, LStar(x)>>)                \* x+?
Opt(x)     == Alt(<<x, Empty>>)                   \* x?
Grp(n, x)  == Node("grp", {}, <<x>>, n)           \* capturing group n
GEnd(n, b) == Node("gend", {}, <<>>, n * 1000 + b) \* group n, opened at b, closes here
WB         == Node("wb", {}, <<>>, 0)             \* \b
BOL        == Node("bol", {}, <<>>, 0)            \* ^
EOL        == Node("eol", {}, <<>>, 0)            \* $
Ahead(x)   == Node("la", {}, <<x>>, 0)            \* (?=x)
\* a run of single characters, each of its own set
Run(sets)  == Node("run", {}, sets, 0)
\* a literal word; WordI is the same under re.IGNORECASE
Word(w)    == Run([n \in 1..Len(w) |-> {w[n]}])
WordI(w)   == Run([n \in 1..Len(w) |-> {LowerOf(w[n]), UpperOf(w[n])}])
\* x{n} of a character class x
Rep(x, n)  == Run([m \in 1..n |-> x.s])

MaxGroups == 3
NoCaps == [n \in 1..MaxGroups |-> <<0, 0>>]
Fail == [ok |-> FALSE, b |-> 0, p |-> 0, g |-> NoCaps]

IsWordAt(s, n) == n >= 1 /\ n <= Len(s) /\ s[n] \in WordCh

\* does the one-character node x take the character c
Takes(x, c) == IF x.k = "ch" THEN c \in x.s ELSE c \notin x.s
\* how many characters from p on the one-character node x takes in a row
RunLen(x, s, p) ==
  LET stop == {n \in p..Len(s) : ~Takes(x, s[n])}
  IN  IF stop = {} THEN Len(s) + 1 - p ELSE Min(stop) - p

\* the first of two attempts that succeeds
OrElse(r, other) == IF r.ok THEN r ELSE other
\* the run a star settles on among those that let the rest match; -1 if none
Settle(kind, fits) ==
  IF fits = {} THEN -1 ELSE IF kind = "star" THEN Max(fits) ELSE Min(fits)
Skip(n) == Node("skip", {}, <<>>, n)

RECURSIVE M(_, _, _, _)
\* Match the node list todo against s from position p (1-based) with the
\* captures g; the result is Fail or [ok, p: the position after the match, g].
\* A star takes the longest run that lets the rest match, a lazy star the
\* shortest: the choice Python's backtracking ends with.
M(todo, s, p, g) ==
  IF Len(todo) = 0 THEN [ok |-> TRUE, b |-> 0, p |-> p, g |-> g]
  ELSE
    LET x == todo[1]
        rest == Tail(todo)
    IN  CASE x.k = "run" ->
               IF /\ p + Len(x.sub) - 1 <= Len(s)
                  /\ \A n \in 1..Len(x.sub) : s[p + n - 1] \in x.sub[n]
               THEN M(rest, s, p + Len(x.sub), g) ELSE Fail
          [] x.k \in {"ch", "nch"} ->
               IF p <= Len(s) /\ Takes(x, s[p]) THEN M(rest, s, p + 1, g) ELSE Fail
          [] x.k = "cat" -> M(x.sub \o rest, s, p, g)
          [] x.k = "alt" ->
               IF Len(x.sub) = 0 THEN Fail
               ELSE OrElse(M(<<x.sub[1]>> \o rest, s, p, g),
                           M(<<Alt(Tail(x.sub))>> \o rest, s, p, g))
          [] x.k \in {"star", "lstar"} ->
               M(<<Skip(Settle(x.k, {n \in 0..RunLen(x.sub[1], s, p) :
                                       M(rest, s, p + n, g).ok}))>> \o rest, s, p, g)
          [] x.k = "skip" -> IF x.n < 0 THEN Fail ELSE M(rest, s, p + x.n, g)
          [] x.k = "grp" -> M(<<x.sub[1], GEnd(x.n, p)>> \o rest, s, p, g)
          [] x.k = "gend" ->
               M(rest, s, p, [g EXCEPT ![x.n \div 1000] = <<x.n % 1000, p>>])
          [] x.k = "wb" ->
               IF IsWordAt(s, p - 1) # IsWordAt(s, p) THEN M(rest, s, p, g) ELSE Fail
          [] x.k = "bol" -> IF p = 1 THEN M(rest, s, p, g) ELSE Fail
          [] x.k = "eol" ->
               IF p = Len(s) + 1 \/ (p = Len(s) /\ s[p] = "\n")
               THEN M(rest, s, p, g) ELSE Fail
          [] x.k = "la" ->
               IF M(<<x.sub[1]>>, s, p, g).ok THEN M(rest, s, p, g) ELSE Fail

\* pattern.match(s): a match starting at the first character
ReMatch(re, s) == [M(<<re>>, s, 1, NoCaps) EXCEPT !.b = 1]

\* pattern.search(s, from): the leftmost match; b is where it starts
Leftmost(hits) == IF hits = {} THEN 0 ELSE Min(hits)
MatchAt(re, s, n) == IF n = 0 THEN Fail ELSE [M(<<re>>, s, n, NoCaps) EXCEPT !.b = n]
SearchFrom(re, s, from) ==
  MatchAt(re, s, Leftmost({n \in from..(Len(s) + 1) : M(<<re>>, s, n, NoCaps).ok}))
ReSearch(re, s) == SearchFrom(re, s, 1)

\* match.group(n); None is the empty string here
Group(s, r, n) == Slice(s, r.g[n][1], r.g[n][2])
\* match.group()
Group0(s, r) == Slice(s, r.b, r.p)

RECURSIVE FindAllFrom(_, _, _)
FoundFrom(re, s, r) ==
  IF ~r.ok THEN <<>>
  ELSE <<Group0(s, r)>> \o FindAllFrom(re, s, IF r.p > r.b THEN r.p ELSE r.b + 1)
\* pattern.findall(s) for a pattern without groups: the matched texts.
\* No pattern of the source matches the empty string.
FindAllFrom(re, s, from) == FoundFrom(re, s, SearchFrom(re, s, from))
FindAll(re, s) == FindAllFrom(re, s, 1)

\* A replacement template is a sequence of items [c, g]: the character c, or
\* (c empty) the text of group g, as in r'\1I\2'.
Lit(c) == [c |-> c, g |-> 0]
Ref(n) == [c |-> "", g |-> n]
RECURSIVE Expand(_, _, _)
Expand(tmpl, s, r) ==
  IF Len(tmpl) = 0 THEN <<>>
  ELSE (IF tmpl[1].g = 0 THEN <<tmpl[1].c>> ELSE Group(s, r, tmpl[1].g))
       \o Expand(Tail(tmpl), s, r)

RECURSIVE SubFrom(_, _, _, _)
Replaced(re, tmpl, s, from, r) ==
  IF ~r.ok THEN Slice(s, from, Len(s) + 1)
  ELSE Slice(s, from, r.b) \o Expand(tmpl, s, r) \o SubFrom(re, tmpl, s, r.p)
\* re.sub(pattern, template, s): the non-overlapping matches, left to right
SubFrom(re, tmpl, s, from) == Replaced(re, tmpl, s, from, SearchFrom(re, s, from))
ReSub(re, tmpl, s) == Apply(LAMBDA t : SubFrom(re, tmpl, t, 1), s)

RECURSIVE ReSplitFrom(_, _, _)
Pieces(re, s, from, r) ==
  IF ~r.ok THEN <<Slice(s, from, Len(s) + 1)>>
  ELSE <<Slice(s, from, r.b)>> \o ReSplitFrom(re, s, r.p)
\* re.split(pattern, s) for a pattern without groups
ReSplitFrom(re, s, from) == Pieces(re, s, from, SearchFrom(re, s, from))
ReSplit(re, s) == ReSplitFrom(re, s, 1)

-----------------------------------------------------------------------------
(* TextCleaner.clean                                                       *)

\* r'--- PAGE \d+ ---'
PageMarkerRe == Cat(<<Word(<<"-","-","-"," ","P","A","G","E"," ">>), Plus(Ch(DigitCh)),
                      Word(<<" ","-","-","-">>)>>)
\* r'Resume of\s+', re.IGNORECASE
ResumeOfRe == Cat(<<WordI(<<"r","e","s","u","m","e"," ","o","f">>), Plus(Ch(SpaceCh))>>)
\* r'Curriculum Vitae', re.IGNORECASE
CurriculumVitaeRe == WordI(<<"c","u","r","r","i","c","u","l","u","m"," ","v","i","t","a","e">>)

\* the replacements table of _normalize_unicode, in its order
UnicodeReplacements ==
  << <<"u2022", "u2022">>, <<"u2013", "-">>, <<"u2014", "-">>, <<"u2018", "'">>,
     <<"u2019", "'">>, <<"u201c", "\"">>, <<"u201d", "\"">>, <<"u00a0", " ">> >>
RECURSIVE ReplaceAll(_, _)
ReplaceAll(s, table) ==
  IF Len(table) = 0 THEN s
  ELSE ReplaceAll(ReplaceCh(s, table[1][1], table[1][2]), Tail(table))
_normalize_unicode(s) == ReplaceAll(s, UnicodeReplacements)

\* the ocr_fixes table: r'\bl\b' -> 'I', r'\b0\b' -> 'O', r'(\w)l(\w)' -> r'\1I\2'
OcrLoneL == Cat(<<WB, Ch({"l"}), WB>>)
OcrLoneZero == Cat(<<WB, Ch({"0"}), WB>>)
OcrInnerL == Cat(<<Grp(1, Ch(WordCh)), Ch({"l"}), Grp(2, Ch(WordCh))>>)
_fix_ocr_errors(s) ==
  ReSub(OcrInnerL, <<Ref(1), Lit("I"), Ref(2)>>,
    ReSub(OcrLoneZero, <<Lit("O")>>,
      ReSub(OcrLoneL, <<Lit("I")>>, s)))

\* r'[.]{3,}', r'[-]{3,}', r'\n\s*\d+\s*\n'
DotsRe == Cat(<<Rep(Ch({"."}), 3), Star(Ch({"."}))>>)
DashesRe == Cat(<<Rep(Ch({"-"}), 3), Star(Ch({"-"}))>>)
LoneNumberRe == Cat(<<Ch({"\n"}), Star(Ch(SpaceCh)), Plus(Ch(DigitCh)), Star(Ch(SpaceCh)),
                      Ch({"\n"})>>)
_remove_noise(s) ==
  ReSub(LoneNumberRe, <<Lit("\n")>>,
    ReSub(DashesRe, <<Lit("-"), Lit("-"), Lit("-")>>,
      ReSub(DotsRe, <<Lit("."), Lit("."), Lit(".")>>, s)))

\* r'\s+' and r'\n\s*\n'
SpacesRe == Plus(Ch(SpaceCh))
BlankLinesRe == Cat(<<Ch({"\n"}), Star(Ch(SpaceCh)), Ch({"\n"})>>)

\* the cleaner without its r'\s+' step
clean_KeepingLines(s) ==
  IF Len(s) = 0 THEN <<>>
  ELSE Strip(ReSub(BlankLinesRe, <<Lit("\n")>>,
         _remove_noise(_fix_ocr_errors(_normalize_unicode(
           ReSub(CurriculumVitaeRe, <<>>,
             ReSub(ResumeOfRe, <<>>, ReSub(PageMarkerRe, <<>>, s))))))))
clean(s) ==
  IF Len(s) = 0 THEN <<>>
  ELSE LET t1 == ReSub(PageMarkerRe, <<>>, s)
           t2 == ReSub(ResumeOfRe, <<>>, t1)
           t3 == ReSub(CurriculumVitaeRe, <<>>, t2)
           t4 == _normalize_unicode(t3)
           t5 == _fix_ocr_errors(t4)
           t6 == _remove_noise(t5)
           t7 == ReSub(SpacesRe, <<Lit(" ")>>, t6)
           t8 == ReSub(BlankLinesRe, <<Lit("\n")>>, t7)
       IN  Strip(t8)

-----------------------------------------------------------------------------
(* TextCleaner: the header tables and the header tests                     *)

\* The section names (keys of the section map) as character sequences.
K_contact_info == <<"c","o","n","t","a","c","t","_","i","n","f","o">>
K_summary == <<"s","u","m","m","a","r","y">>
K_experience == <<"e","x","p","e","r","i","e","n","c","e">>
K_education == <<"e","d","u","c","a","t","i","o","n">>
K_skills == <<"s","k","i","l","l","s">>
K_projects == <<"p","r","o","j","e","c","t","s">>
K_certifications == <<"c","e","r","t","i","f","i","c","a","t","i","o","n","s">>
K_achievements == <<"a","c","h","i","e","v","e","m","e","n","t","s">>
K_languages == <<"l","a","n","g","u","a","g","e","s">>
K_interests == <<"i","n","t","e","r","e","s","t","s">>
K_references == <<"r","e","f","e","r","e","n","c","e","s">>
K_volunteer == <<"v","o","l","u","n","t","e","e","r">>
K_header == <<"h","e","a","d","e","r">>
K_name == <<"n","a","m","e">>
K_content == <<"c","o","n","t","e","n","t">>
K_other == <<"o","t","h","e","r">>

\* _compile_resume_section_patterns, flattened in iteration order: every
\* pattern is compiled with re.IGNORECASE.
SectionPatterns == <<
  \* ^\s*contact\s*(?:info|information)?\s*:?\s*$
  [name |-> K_contact_info, re |->
     Cat(<<BOL, Star(Ch(SpaceCh)), WordI(<<"c","o","n","t","a","c","t">>), Star(Ch(SpaceCh)), Opt(Cat(<<WordI(<<"i","n","f","o">>), Alt(<<Empty, WordI(<<"r","m","a","t","i","o","n">>)>>)>>)), Star(Ch(SpaceCh)), Opt(Ch({":"})), Star(Ch(SpaceCh)), EOL>>)],
  \* ^\s*personal\s*(?:info|information|details)?\s*:?\s*$
  [name |-> K_contact_info, re |->
     Cat(<<BOL, Star(Ch(SpaceCh)), WordI(<<"p","e","r","s","o","n","a","l">>), Star(Ch(SpaceCh)), Opt(Alt(<<WordI(<<"i","n","f","o">>), WordI(<<"i","n","f","o","r","m","a","t","i","o","n">>), WordI(<<"d","e","t","a","i","l","s">>)>>)), Star(Ch(SpaceCh)), Opt(Ch({":"})), Star(Ch(SpaceCh)), EOL>>)],
  \* ^\s*(?:professional\s+)?summary\s*:?\s*$
  [name |-> K_summary, re |->
     Cat(<<BOL, Star(Ch(SpaceCh)), Opt(Cat(<<WordI(<<"p","r","o","f","e","s","s","i","o","n","a","l">>), Plus(Ch(SpaceCh))>>)), WordI(<<"s","u","m","m","a","r","y">>), Star(Ch(SpaceCh)), Opt(Ch({":"})), Star(Ch(SpaceCh)), EOL>>)],
  \* ^\s*(?:career\s+)?(?:summary|overview)\s*:?\s*$
  [name |-> K_summary, re |->
     Cat(<<BOL, Star(Ch(SpaceCh)), Opt(Cat(<<WordI(<<"c","a","r","e","e","r">>), Plus(Ch(SpaceCh))>>)), Alt(<<WordI(<<"s","u","m","m","a","r","y">>), WordI(<<"o","v","e","r","v","i","e","w">>)>>), Star(Ch(SpaceCh)), Opt(Ch({":"})), Star(Ch(SpaceCh)), EOL>>)],
  \* ^\s*(?:executive\s+)?summary\s*:?\s*$
  [name |-> K_summary, re |->
     Cat(<<BOL, Star(Ch(SpaceCh)), Opt(Cat(<<WordI(<<"e","x","e","c","u","t","i","v","e">>), Plus(Ch(SpaceCh))>>)), WordI(<<"s","u","m","m","a","r","y">>), Star(Ch(SpaceCh)), Opt(Ch({":"})), Star(Ch(SpaceCh)), EOL>>)],
  \* ^\s*profile\s*:?\s*$
  [name |-> K_summary, re |->
     Cat(<<BOL, Star(Ch(SpaceCh)), WordI(<<"p","r","o","f","i","l","e">>), Star(Ch(SpaceCh)), Opt(Ch({":"})), Star(Ch(SpaceCh)), EOL>>)],
  \* ^\s*about\s*(?:me)?\s*:?\s*$
  [name |-> K_summary, re |->
     Cat(<<BOL, Star(Ch(SpaceCh)), WordI(<<"a","b","o","u","t">>), Star(Ch(SpaceCh)), Opt(WordI(<<"m","e">>)), Star(Ch(SpaceCh)), Opt(Ch({":"})), Star(Ch(SpaceCh)), EOL>>)],
  \* ^\s*objective\s*:?\s*$
  [name |-> K_summary, re |->
     Cat(<<BOL, Star(Ch(SpaceCh)), WordI(<<"o","b","j","e","c","t","i","v","e">>), Star(Ch(SpaceCh)), Opt(Ch({":"})), Star(Ch(SpaceCh)), EOL>>)],
  \* ^\s*(?:work\s+)?experience\s*:?\s*$
  [name |-> K_experience, re |->
     Cat(<<BOL, Star(Ch(SpaceCh)), Opt(Cat(<<WordI(<<"w","o","r","k">>), Plus(Ch(SpaceCh))>>)), WordI(<<"e","x","p","e","r","i","e","n","c","e">>), Star(Ch(SpaceCh)), Opt(Ch({":"})), Star(Ch(SpaceCh)), EOL>>)],
  \* ^\s*(?:professional\s+)?experience\s*:?\s*$
  [name |-> K_experience, re |->
     Cat(<<BOL, Star(Ch(SpaceCh)), Opt(Cat(<<WordI(<<"p","r","o","f","e","s","s","i","o","n","a","l">>), Plus(Ch(SpaceCh))>>)), WordI(<<"e","x","p","e","r","i","e","n","c","e">>), Star(Ch(SpaceCh)), Opt(Ch({":"})), Star(Ch(SpaceCh)), EOL>>)],
  \* ^\s*employment\s*(?:history)?\s*:?\s*$
  [name |-> K_experience, re |->
     Cat(<<BOL, Star(Ch(SpaceCh)), WordI(<<"e","m","p","l","o","y","m","e","n","t">>), Star(Ch(SpaceCh)), Opt(WordI(<<"h","i","s","t","o","r","y">>)), Star(Ch(SpaceCh)), Opt(Ch({":"})), Star(Ch(SpaceCh)), EOL>>)],
  \* ^\s*work\s*(?:history)?\s*:?\s*$
  [name |-> K_experience, re |->
     Cat(<<BOL, Star(Ch(SpaceCh)), WordI(<<"w","o","r","k">>), Star(Ch(SpaceCh)), Opt(WordI(<<"h","i","s","t","o","r","y">>)), Star(Ch(SpaceCh)), Opt(Ch({":"})), Star(Ch(SpaceCh)), EOL>>)],
  \* ^\s*career\s*(?:history)?\s*:?\s*$
  [name |-> K_experience, re |->
     Cat(<<BOL, Star(Ch(SpaceCh)), WordI(<<"c","a","r","e","e","r">>), Star(Ch(SpaceCh)), Opt(WordI(<<"h","i","s","t","o","r","y">>)), Star(Ch(SpaceCh)), Opt(Ch({":"})), Star(Ch(SpaceCh)), EOL>>)],
  \* ^\s*positions?\s*(?:held)?\s*:?\s*$
  [name |-> K_experience, re |->
     Cat(<<BOL, Star(Ch(SpaceCh)), WordI(<<"p","o","s","i","t","i","o","n">>), Opt(WordI(<<"s">>)), Star(Ch(SpaceCh)), Opt(WordI(<<"h","e","l","d">>)), Star(Ch(SpaceCh)), Opt(Ch({":"})), Star(Ch(SpaceCh)), EOL>>)],
  \* ^\s*education\s*:?\s*$
  [name |-> K_education, re |->
     Cat(<<BOL, Star(Ch(SpaceCh)), WordI(<<"e","d","u","c","a","t","i","o","n">>), Star(Ch(SpaceCh)), Opt(Ch({":"})), Star(Ch(SpaceCh)), EOL>>)],
  \* ^\s*educational\s*(?:background|qualifications?)?\s*:?\s*$
  [name |-> K_education, re |->
     Cat(<<BOL, Star(Ch(SpaceCh)), WordI(<<"e","d","u","c","a","t","i","o","n","a","l">>), Star(Ch(SpaceCh)), Opt(Alt(<<WordI(<<"b","a","c","k","g","r","o","u","n","d">>), Cat(<<WordI(<<"q","u","a","l","i","f","i","c","a","t","i","o","n">>), Opt(WordI(<<"s">>))>>)>>)), Star(Ch(SpaceCh)), Opt(Ch({":"})), Star(Ch(SpaceCh)), EOL>>)],
  \* ^\s*academic\s*(?:background)?\s*:?\s*$
  [name |-> K_education, re |->
     Cat(<<BOL, Star(Ch(SpaceCh)), WordI(<<"a","c","a","d","e","m","i","c">>), Star(Ch(SpaceCh)), Opt(WordI(<<"b","a","c","k","g","r","o","u","n","d">>)), Star(Ch(SpaceCh)), Opt(Ch({":"})), Star(Ch(SpaceCh)), EOL>>)],
  \* ^\s*qualifications?\s*:?\s*$
  [name |-> K_education, re |->
     Cat(<<BOL, Star(Ch(SpaceCh)), WordI(<<"q","u","a","l","i","f","i","c","a","t","i","o","n">>), Opt(WordI(<<"s">>)), Star(Ch(SpaceCh)), Opt(Ch({":"})), Star(Ch(SpaceCh)), EOL>>)],
  \* ^\s*skills?\s*:?\s*$
  [name |-> K_skills, re |->
     Cat(<<BOL, Star(Ch(SpaceCh)), WordI(<<"s","k","i","l","l">>), Opt(WordI(<<"s">>)), Star(Ch(SpaceCh)), Opt(Ch({":"})), Star(Ch(SpaceCh)), EOL>>)],
  \* ^\s*(?:technical\s+)?skills?\s*:?\s*$
  [name |-> K_skills, re |->
     Cat(<<BOL, Star(Ch(SpaceCh)), Opt(Cat(<<WordI(<<"t","e","c","h","n","i","c","a","l">>), Plus(Ch(SpaceCh))>>)), WordI(<<"s","k","i","l","l">>), Opt(WordI(<<"s">>)), Star(Ch(SpaceCh)), Opt(Ch({":"})), Star(Ch(SpaceCh)), EOL>>)],
  \* ^\s*(?:core\s+)?competencies\s*:?\s*$
  [name |-> K_skills, re |->
     Cat(<<BOL, Star(Ch(SpaceCh)), Opt(Cat(<<WordI(<<"c","o","r","e">>), Plus(Ch(SpaceCh))>>)), WordI(<<"c","o","m","p","e","t","e","n","c","i","e","s">>), Star(Ch(SpaceCh)), Opt(Ch({":"})), Star(Ch(SpaceCh)), EOL>>)],
  \* ^\s*(?:key\s+)?skills?\s*(?:and\s+competencies)?\s*:?\s*$
  [name |-> K_skills, re |->
     Cat(<<BOL, Star(Ch(SpaceCh)), Opt(Cat(<<WordI(<<"k","e","y">>), Plus(Ch(SpaceCh))>>)), WordI(<<"s","k","i","l","l">>), Opt(WordI(<<"s">>)), Star(Ch(SpaceCh)), Opt(Cat(<<WordI(<<"a","n","d">>), Plus(Ch(SpaceCh)), WordI(<<"c","o","m","p","e","t","e","n","c","i","e","s">>)>>)), Star(Ch(SpaceCh)), Opt(Ch({":"})), Star(Ch(SpaceCh)), EOL>>)],
  \* ^\s*expertise\s*:?\s*$
  [name |-> K_skills, re |->
     Cat(<<BOL, Star(Ch(SpaceCh)), WordI(<<"e","x","p","e","r","t","i","s","e">>), Star(Ch(SpaceCh)), Opt(Ch({":"})), Star(Ch(SpaceCh)), EOL>>)],
  \* ^\s*technologies?\s*:?\s*$
  [name |-> K_skills, re |->
     Cat(<<BOL, Star(Ch(SpaceCh)), WordI(<<"t","e","c","h","n","o","l","o","g","i","e">>), Opt(WordI(<<"s">>)), Star(Ch(SpaceCh)), Opt(Ch({":"})), Star(Ch(SpaceCh)), EOL>>)],
  \* ^\s*technical\s*(?:knowledge|expertise)?\s*:?\s*$
  [name |-> K_skills, re |->
     Cat(<<BOL, Star(Ch(SpaceCh)), WordI(<<"t","e","c","h","n","i","c","a","l">>), Star(Ch(SpaceCh)), Opt(Alt(<<WordI(<<"k","n","o","w","l","e","d","g","e">>), WordI(<<"e","x","p","e","r","t","i","s","e">>)>>)), Star(Ch(SpaceCh)), Opt(Ch({":"})), Star(Ch(SpaceCh)), EOL>>)],
  \* ^\s*projects?\s*:?\s*$
  [name |-> K_projects, re |->
     Cat(<<BOL, Star(Ch(SpaceCh)), WordI(<<"p","r","o","j","e","c","t">>), Opt(WordI(<<"s">>)), Star(Ch(SpaceCh)), Opt(Ch({":"})), Star(Ch(SpaceCh)), EOL>>)],
  \* ^\s*(?:key\s+)?projects?\s*:?\s*$
  [name |-> K_projects, re |->
     Cat(<<BOL, Star(Ch(SpaceCh)), Opt(Cat(<<WordI(<<"k","e","y">>), Plus(Ch(SpaceCh))>>)), WordI(<<"p","r","o","j","e","c","t">>), Opt(WordI(<<"s">>)), Star(Ch(SpaceCh)), Opt(Ch({":"})), Star(Ch(SpaceCh)), EOL>>)],
  \* ^\s*(?:notable\s+)?projects?\s*:?\s*$
  [name |-> K_projects, re |->
     Cat(<<BOL, Star(Ch(SpaceCh)), Opt(Cat(<<WordI(<<"n","o","t","a","b","l","e">>), Plus(Ch(SpaceCh))>>)), WordI(<<"p","r","o","j","e","c","t">>), Opt(WordI(<<"s">>)), Star(Ch(SpaceCh)), Opt(Ch({":"})), Star(Ch(SpaceCh)), EOL>>)],
  \* ^\s*project\s*(?:experience|work)?\s*:?\s*$
  [name |-> K_projects, re |->
     Cat(<<BOL, Star(Ch(SpaceCh)), WordI(<<"p","r","o","j","e","c","t">>), Star(Ch(SpaceCh)), Opt(Alt(<<WordI(<<"e","x","p","e","r","i","e","n","c","e">>), WordI(<<"w","o","r","k">>)>>)), Star(Ch(SpaceCh)), Opt(Ch({":"})), Star(Ch(SpaceCh)), EOL>>)],
  \* ^\s*certifications?\s*:?\s*$
  [name |-> K_certifications, re |->
     Cat(<<BOL, Star(Ch(SpaceCh)), WordI(<<"c","e","r","t","i","f","i","c","a","t","i","o","n">>), Opt(WordI(<<"s">>)), Star(Ch(SpaceCh)), Opt(Ch({":"})), Star(Ch(SpaceCh)), EOL>>)],
  \* ^\s*certificates?\s*:?\s*$
  [name |-> K_certifications, re |->
     Cat(<<BOL, Star(Ch(SpaceCh)), WordI(<<"c","e","r","t","i","f","i","c","a","t","e">>), Opt(WordI(<<"s">>)), Star(Ch(SpaceCh)), Opt(Ch({":"})), Star(Ch(SpaceCh)), EOL>>)],
  \* ^\s*(?:professional\s+)?certifications?\s*:?\s*$
  [name |-> K_certifications, re |->
     Cat(<<BOL, Star(Ch(SpaceCh)), Opt(Cat(<<WordI(<<"p","r","o","f","e","s","s","i","o","n","a","l">>), Plus(Ch(SpaceCh))>>)), WordI(<<"c","e","r","t","i","f","i","c","a","t","i","o","n">>), Opt(WordI(<<"s">>)), Star(Ch(SpaceCh)), Opt(Ch({":"})), Star(Ch(SpaceCh)), EOL>>)],
  \* ^\s*licenses?\s*(?:and\s+certifications?)?\s*:?\s*$
  [name |-> K_certifications, re |->
     Cat(<<BOL, Star(Ch(SpaceCh)), WordI(<<"l","i","c","e","n","s","e">>), Opt(WordI(<<"s">>)), Star(Ch(SpaceCh)), Opt(Cat(<<WordI(<<"a","n","d">>), Plus(Ch(SpaceCh)), WordI(<<"c","e","r","t","i","f","i","c","a","t","i","o","n">>), Opt(WordI(<<"s">>))>>)), Star(Ch(SpaceCh)), Opt(Ch({":"})), Star(Ch(SpaceCh)), EOL>>)],
  \* ^\s*achievements?\s*:?\s*$
  [name |-> K_achievements, re |->
     Cat(<<BOL, Star(Ch(SpaceCh)), WordI(<<"a","c","h","i","e","v","e","m","e","n","t">>), Opt(WordI(<<"s">>)), Star(Ch(SpaceCh)), Opt(Ch({":"})), Star(Ch(SpaceCh)), EOL>>)],
  \* ^\s*accomplishments?\s*:?\s*$
  [name |-> K_achievements, re |->
     Cat(<<BOL, Star(Ch(SpaceCh)), WordI(<<"a","c","c","o","m","p","l","i","s","h","m","e","n","t">>), Opt(WordI(<<"s">>)), Star(Ch(SpaceCh)), Opt(Ch({":"})), Star(Ch(SpaceCh)), EOL>>)],
  \* ^\s*awards?\s*(?:and\s+achievements?)?\s*:?\s*$
  [name |-> K_achievements, re |->
     Cat(<<BOL, Star(Ch(SpaceCh)), WordI(<<"a","w","a","r","d">>), Opt(WordI(<<"s">>)), Star(Ch(SpaceCh)), Opt(Cat(<<WordI(<<"a","n","d">>), Plus(Ch(SpaceCh)), WordI(<<"a","c","h","i","e","v","e","m","e","n","t">>), Opt(WordI(<<"s">>))>>)), Star(Ch(SpaceCh)), Opt(Ch({":"})), Star(Ch(SpaceCh)), EOL>>)],
  \* ^\s*honors?\s*(?:and\s+awards?)?\s*:?\s*$
  [name |-> K_achievements, re |->
     Cat(<<BOL, Star(Ch(SpaceCh)), WordI(<<"h","o","n","o","r">>), Opt(WordI(<<"s">>)), Star(Ch(SpaceCh)), Opt(Cat(<<WordI(<<"a","n","d">>), Plus(Ch(SpaceCh)), WordI(<<"a","w","a","r","d">>), Opt(WordI(<<"s">>))>>)), Star(Ch(SpaceCh)), Opt(Ch({":"})), Star(Ch(SpaceCh)), EOL>>)],
  \* ^\s*recognition\s*:?\s*$
  [name |-> K_achievements, re |->
     Cat(<<BOL, Star(Ch(SpaceCh)), WordI(<<"r","e","c","o","g","n","i","t","i","o","n">>), Star(Ch(SpaceCh)), Opt(Ch({":"})), Star(Ch(SpaceCh)), EOL>>)],
  \* ^\s*languages?\s*:?\s*$
  [name |-> K_languages, re |->
     Cat(<<BOL, Star(Ch(SpaceCh)), WordI(<<"l","a","n","g","u","a","g","e">>), Opt(WordI(<<"s">>)), Star(Ch(SpaceCh)), Opt(Ch({":"})), Star(Ch(SpaceCh)), EOL>>)],
  \* ^\s*language\s*(?:skills|proficiency)?\s*:?\s*$
  [name |-> K_languages, re |->
     Cat(<<BOL, Star(Ch(SpaceCh)), WordI(<<"l","a","n","g","u","a","g","e">>), Star(Ch(SpaceCh)), Opt(Alt(<<WordI(<<"s","k","i","l","l","s">>), WordI(<<"p","r","o","f","i","c","i","e","n","c","y">>)>>)), Star(Ch(SpaceCh)), Opt(Ch({":"})), Star(Ch(SpaceCh)), EOL>>)],
  \* ^\s*interests?\s*:?\s*$
  [name |-> K_interests, re |->
     Cat(<<BOL, Star(Ch(SpaceCh)), WordI(<<"i","n","t","e","r","e","s","t">>), Opt(WordI(<<"s">>)), Star(Ch(SpaceCh)), Opt(Ch({":"})), Star(Ch(SpaceCh)), EOL>>)],
  \* ^\s*hobbies?\s*(?:and\s+interests?)?\s*:?\s*$
  [name |-> K_interests, re |->
     Cat(<<BOL, Star(Ch(SpaceCh)), WordI(<<"h","o","b","b","i","e">>), Opt(WordI(<<"s">>)), Star(Ch(SpaceCh)), Opt(Cat(<<WordI(<<"a","n","d">>), Plus(Ch(SpaceCh)), WordI(<<"i","n","t","e","r","e","s","t">>), Opt(WordI(<<"s">>))>>)), Star(Ch(SpaceCh)), Opt(Ch({":"})), Star(Ch(SpaceCh)), EOL>>)],
  \* ^\s*personal\s*interests?\s*:?\s*$
  [name |-> K_interests, re |->
     Cat(<<BOL, Star(Ch(SpaceCh)), WordI(<<"p","e","r","s","o","n","a","l">>), Star(Ch(SpaceCh)), WordI(<<"i","n","t","e","r","e","s","t">>), Opt(WordI(<<"s">>)), Star(Ch(SpaceCh)), Opt(Ch({":"})), Star(Ch(SpaceCh)), EOL>>)],
  \* ^\s*activities?\s*:?\s*$
  [name |-> K_interests, re |->
     Cat(<<BOL, Star(Ch(SpaceCh)), WordI(<<"a","c","t","i","v","i","t","i","e">>), Opt(WordI(<<"s">>)), Star(Ch(SpaceCh)), Opt(Ch({":"})), Star(Ch(SpaceCh)), EOL>>)],
  \* ^\s*references?\s*:?\s*$
  [name |-> K_references, re |->
     Cat(<<BOL, Star(Ch(SpaceCh)), WordI(<<"r","e","f","e","r","e","n","c","e">>), Opt(WordI(<<"s">>)), Star(Ch(SpaceCh)), Opt(Ch({":"})), Star(Ch(SpaceCh)), EOL>>)],
  \* ^\s*professional\s*references?\s*:?\s*$
  [name |-> K_references, re |->
     Cat(<<BOL, Star(Ch(SpaceCh)), WordI(<<"p","r","o","f","e","s","s","i","o","n","a","l">>), Star(Ch(SpaceCh)), WordI(<<"r","e","f","e","r","e","n","c","e">>), Opt(WordI(<<"s">>)), Star(Ch(SpaceCh)), Opt(Ch({":"})), Star(Ch(SpaceCh)), EOL>>)],
  \* ^\s*references?\s*available\s*(?:upon\s+request)?\s*:?\s*$
  [name |-> K_references, re |->
     Cat(<<BOL, Star(Ch(SpaceCh)), WordI(<<"r","e","f","e","r","e","n","c","e">>), Opt(WordI(<<"s">>)), Star(Ch(SpaceCh)), WordI(<<"a","v","a","i","l","a","b","l","e">>), Star(Ch(SpaceCh)), Opt(Cat(<<WordI(<<"u","p","o","n">>), Plus(Ch(SpaceCh)), WordI(<<"r","e","q","u","e","s","t">>)>>)), Star(Ch(SpaceCh)), Opt(Ch({":"})), Star(Ch(SpaceCh)), EOL>>)],
  \* ^\s*volunteer\s*(?:experience|work)?\s*:?\s*$
  [name |-> K_volunteer, re |->
     Cat(<<BOL, Star(Ch(SpaceCh)), WordI(<<"v","o","l","u","n","t","e","e","r">>), Star(Ch(SpaceCh)), Opt(Alt(<<WordI(<<"e","x","p","e","r","i","e","n","c","e">>), WordI(<<"w","o","r","k">>)>>)), Star(Ch(SpaceCh)), Opt(Ch({":"})), Star(Ch(SpaceCh)), EOL>>)],
  \* ^\s*volunteering\s*:?\s*$
  [name |-> K_volunteer, re |->
     Cat(<<BOL, Star(Ch(SpaceCh)), WordI(<<"v","o","l","u","n","t","e","e","r","i","n","g">>), Star(Ch(SpaceCh)), Opt(Ch({":"})), Star(Ch(SpaceCh)), EOL>>)],
  \* ^\s*community\s*(?:service|involvement)?\s*:?\s*$
  [name |-> K_volunteer, re |->
     Cat(<<BOL, Star(Ch(SpaceCh)), WordI(<<"c","o","m","m","u","n","i","t","y">>), Star(Ch(SpaceCh)), Opt(Alt(<<WordI(<<"s","e","r","v","i","c","e">>), WordI(<<"i","n","v","o","l","v","e","m","e","n","t">>)>>)), Star(Ch(SpaceCh)), Opt(Ch({":"})), Star(Ch(SpaceCh)), EOL>>)]
>>

\* The 'core' of each pattern as lines 198-199 build it from the pattern's text
\* (four str.replace calls), in the same order.  A core that is no regular
\* expression (re.match raises re.error on it) has valid = FALSE.
CorePatterns == <<
  \* contact\s*info|information
  [name |-> K_contact_info, valid |-> TRUE, re |->
     Alt(<<Cat(<<WordI(<<"c","o","n","t","a","c","t">>), Star(Ch(SpaceCh)), WordI(<<"i","n","f","o">>)>>), WordI(<<"i","n","f","o","r","m","a","t","i","o","n">>)>>)],
  \* personal\s*info|information|details
  [name |-> K_contact_info, valid |-> TRUE, re |->
     Alt(<<Cat(<<WordI(<<"p","e","r","s","o","n","a","l">>), Star(Ch(SpaceCh)), WordI(<<"i","n","f","o">>)>>), WordI(<<"i","n","f","o","r","m","a","t","i","o","n">>), WordI(<<"d","e","t","a","i","l","s">>)>>)],
  \* professional\s*summary
  [name |-> K_summary, valid |-> TRUE, re |->
     Cat(<<WordI(<<"p","r","o","f","e","s","s","i","o","n","a","l">>), Star(Ch(SpaceCh)), WordI(<<"s","u","m","m","a","r","y">>)>>)],
  \* career\s*summary|overview)
  [name |-> K_summary, valid |-> FALSE, re |->
     Empty],
  \* executive\s*summary
  [name |-> K_summary, valid |-> TRUE, re |->
     Cat(<<WordI(<<"e","x","e","c","u","t","i","v","e">>), Star(Ch(SpaceCh)), WordI(<<"s","u","m","m","a","r","y">>)>>)],
  \* profile
  [name |-> K_summary, valid |-> TRUE, re |->
     WordI(<<"p","r","o","f","i","l","e">>)],
  \* about\s*me
  [name |-> K_summary, valid |-> TRUE, re |->
     Cat(<<WordI(<<"a","b","o","u","t">>), Star(Ch(SpaceCh)), WordI(<<"m","e">>)>>)],
  \* objective
  [name |-> K_summary, valid |-> TRUE, re |->
     WordI(<<"o","b","j","e","c","t","i","v","e">>)],
  \* work\s*experience
  [name |-> K_experience, valid |-> TRUE, re |->
     Cat(<<WordI(<<"w","o","r","k">>), Star(Ch(SpaceCh)), WordI(<<"e","x","p","e","r","i","e","n","c","e">>)>>)],
  \* professional\s*experience
  [name |-> K_experience, valid |-> TRUE, re |->
     Cat(<<WordI(<<"p","r","o","f","e","s","s","i","o","n","a","l">>), Star(Ch(SpaceCh)), WordI(<<"e","x","p","e","r","i","e","n","c","e">>)>>)],
  \* employment\s*history
  [name |-> K_experience, valid |-> TRUE, re |->
     Cat(<<WordI(<<"e","m","p","l","o","y","m","e","n","t">>), Star(Ch(SpaceCh)), WordI(<<"h","i","s","t","o","r","y">>)>>)],
  \* work\s*history
  [name |-> K_experience, valid |-> TRUE, re |->
     Cat(<<WordI(<<"w","o","r","k">>), Star(Ch(SpaceCh)), WordI(<<"h","i","s","t","o","r","y">>)>>)],
  \* career\s*history
  [name |-> K_experience, valid |-> TRUE, re |->
     Cat(<<WordI(<<"c","a","r","e","e","r">>), Star(Ch(SpaceCh)), WordI(<<"h","i","s","t","o","r","y">>)>>)],
  \* positions?\s*held
  [name |-> K_experience, valid |-> TRUE, re |->
     Cat(<<WordI(<<"p","o","s","i","t","i","o","n">>), Opt(WordI(<<"s">>)), Star(Ch(SpaceCh)), WordI(<<"h","e","l","d">>)>>)],
  \* education
  [name |-> K_education, valid |-> TRUE, re |->
     WordI(<<"e","d","u","c","a","t","i","o","n">>)],
  \* educational\s*background|qualifications?
  [name |-> K_education, valid |-> TRUE, re |->
     Alt(<<Cat(<<WordI(<<"e","d","u","c","a","t","i","o","n","a","l">>), Star(Ch(SpaceCh)), WordI(<<"b","a","c","k","g","r","o","u","n","d">>)>>), Cat(<<WordI(<<"q","u","a","l","i","f","i","c","a","t","i","o","n">>), Opt(WordI(<<"s">>))>>)>>)],
  \* academic\s*background
  [name |-> K_education, valid |-> TRUE, re |->
     Cat(<<WordI(<<"a","c","a","d","e","m","i","c">>), Star(Ch(SpaceCh)), WordI(<<"b","a","c","k","g","r","o","u","n","d">>)>>)],
  \* qualifications?
  [name |-> K_education, valid |-> TRUE, re |->
     Cat(<<WordI(<<"q","u","a","l","i","f","i","c","a","t","i","o","n">>), Opt(WordI(<<"s">>))>>)],
  \* skills?
  [name |-> K_skills, valid |-> TRUE, re |->
     Cat(<<WordI(<<"s","k","i","l","l">>), Opt(WordI(<<"s">>))>>)],
  \* technical\s*skills?
  [name |-> K_skills, valid |-> TRUE, re |->
     Cat(<<WordI(<<"t","e","c","h","n","i","c","a","l">>), Star(Ch(SpaceCh)), WordI(<<"s","k","i","l","l">>), Opt(WordI(<<"s">>))>>)],
  \* core\s*competencies
  [name |-> K_skills, valid |-> TRUE, re |->
     Cat(<<WordI(<<"c","o","r","e">>), Star(Ch(SpaceCh)), WordI(<<"c","o","m","p","e","t","e","n","c","i","e","s">>)>>)],
  \* key\s*skills?\s*and\s*competencies
  [name |-> K_skills, valid |-> TRUE, re |->
     Cat(<<WordI(<<"k","e","y">>), Star(Ch(SpaceCh)), WordI(<<"s","k","i","l","l">>), Opt(WordI(<<"s">>)), Star(Ch(SpaceCh)), WordI(<<"a","n","d">>), Star(Ch(SpaceCh)), WordI(<<"c","o","m","p","e","t","e","n","c","i","e","s">>)>>)],
  \* expertise
  [name |-> K_skills, valid |-> TRUE, re |->
     WordI(<<"e","x","p","e","r","t","i","s","e">>)],
  \* technologies?
  [name |-> K_skills, valid |-> TRUE, re |->
     Cat(<<WordI(<<"t","e","c","h","n","o","l","o","g","i","e">>), Opt(WordI(<<"s">>))>>)],
  \* technical\s*knowledge|expertise
  [name |-> K_skills, valid |-> TRUE, re |->
     Alt(<<Cat(<<WordI(<<"t","e","c","h","n","i","c","a","l">>), Star(Ch(SpaceCh)), WordI(<<"k","n","o","w","l","e","d","g","e">>)>>), WordI(<<"e","x","p","e","r","t","i","s","e">>)>>)],
  \* projects?
  [name |-> K_projects, valid |-> TRUE, re |->
     Cat(<<WordI(<<"p","r","o","j","e","c","t">>), Opt(WordI(<<"s">>))>>)],
  \* key\s*projects?
  [name |-> K_projects, valid |-> TRUE, re |->
     Cat(<<WordI(<<"k","e","y">>), Star(Ch(SpaceCh)), WordI(<<"p","r","o","j","e","c","t">>), Opt(WordI(<<"s">>))>>)],
  \* notable\s*projects?
  [name |-> K_projects, valid |-> TRUE, re |->
     Cat(<<WordI(<<"n","o","t","a","b","l","e">>), Star(Ch(SpaceCh)), WordI(<<"p","r","o","j","e","c","t">>), Opt(WordI(<<"s">>))>>)],
  \* project\s*experience|work
  [name |-> K_projects, valid |-> TRUE, re |->
     Alt(<<Cat(<<WordI(<<"p","r","o","j","e","c","t">>), Star(Ch(SpaceCh)), WordI(<<"e","x","p","e","r","i","e","n","c","e">>)>>), WordI(<<"w","o","r","k">>)>>)],
  \* certifications?
  [name |-> K_certifications, valid |-> TRUE, re |->
     Cat(<<WordI(<<"c","e","r","t","i","f","i","c","a","t","i","o","n">>), Opt(WordI(<<"s">>))>>)],
  \* certificates?
  [name |-> K_certifications, valid |-> TRUE, re |->
     Cat(<<WordI(<<"c","e","r","t","i","f","i","c","a","t","e">>), Opt(WordI(<<"s">>))>>)],
  \* professional\s*certifications?
  [name |-> K_certifications, valid |-> TRUE, re |->
     Cat(<<WordI(<<"p","r","o","f","e","s","s","i","o","n","a","l">>), Star(Ch(SpaceCh)), WordI(<<"c","e","r","t","i","f","i","c","a","t","i","o","n">>), Opt(WordI(<<"s">>))>>)],
  \* licenses?\s*and\s*certifications?
  [name |-> K_certifications, valid |-> TRUE, re |->
     Cat(<<WordI(<<"l","i","c","e","n","s","e">>), Opt(WordI(<<"s">>)), Star(Ch(SpaceCh)), WordI(<<"a","n","d">>), Star(Ch(SpaceCh)), WordI(<<"c","e","r","t","i","f","i","c","a","t","i","o","n">>), Opt(WordI(<<"s">>))>>)],
  \* achievements?
  [name |-> K_achievements, valid |-> TRUE, re |->
     Cat(<<WordI(<<"a","c","h","i","e","v","e","m","e","n","t">>), Opt(WordI(<<"s">>))>>)],
  \* accomplishments?
  [name |-> K_achievements, valid |-> TRUE, re |->
     Cat(<<WordI(<<"a","c","c","o","m","p","l","i","s","h","m","e","n","t">>), Opt(WordI(<<"s">>))>>)],
  \* awards?\s*and\s*achievements?
  [name |-> K_achievements, valid |-> TRUE, re |->
     Cat(<<WordI(<<"a","w","a","r","d">>), Opt(WordI(<<"s">>)), Star(Ch(SpaceCh)), WordI(<<"a","n","d">>), Star(Ch(SpaceCh)), WordI(<<"a","c","h","i","e","v","e","m","e","n","t">>), Opt(WordI(<<"s">>))>>)],
  \* honors?\s*and\s*awards?
  [name |-> K_achievements, valid |-> TRUE, re |->
     Cat(<<WordI(<<"h","o","n","o","r">>), Opt(WordI(<<"s">>)), Star(Ch(SpaceCh)), WordI(<<"a","n","d">>), Star(Ch(SpaceCh)), WordI(<<"a","w","a","r","d">>), Opt(WordI(<<"s">>))>>)],
  \* recognition
  [name |-> K_achievements, valid |-> TRUE, re |->
     WordI(<<"r","e","c","o","g","n","i","t","i","o","n">>)],
  \* languages?
  [name |-> K_languages, valid |-> TRUE, re |->
     Cat(<<WordI(<<"l","a","n","g","u","a","g","e">>), Opt(WordI(<<"s">>))>>)],
  \* language\s*skills|proficiency
  [name |-> K_languages, valid |-> TRUE, re |->
     Alt(<<Cat(<<WordI(<<"l","a","n","g","u","a","g","e">>), Star(Ch(SpaceCh)), WordI(<<"s","k","i","l","l","s">>)>>), WordI(<<"p","r","o","f","i","c","i","e","n","c","y">>)>>)],
  \* interests?
  [name |-> K_interests, valid |-> TRUE, re |->
     Cat(<<WordI(<<"i","n","t","e","r","e","s","t">>), Opt(WordI(<<"s">>))>>)],
  \* hobbies?\s*and\s*interests?
  [name |-> K_interests, valid |-> TRUE, re |->
     Cat(<<WordI(<<"h","o","b","b","i","e">>), Opt(WordI(<<"s">>)), Star(Ch(SpaceCh)), WordI(<<"a","n","d">>), Star(Ch(SpaceCh)), WordI(<<"i","n","t","e","r","e","s","t">>), Opt(WordI(<<"s">>))>>)],
  \* personal\s*interests?
  [name |-> K_interests, valid |-> TRUE, re |->
     Cat(<<WordI(<<"p","e","r","s","o","n","a","l">>), Star(Ch(SpaceCh)), WordI(<<"i","n","t","e","r","e","s","t">>), Opt(WordI(<<"s">>))>>)],
  \* activities?
  [name |-> K_interests, valid |-> TRUE, re |->
     Cat(<<WordI(<<"a","c","t","i","v","i","t","i","e">>), Opt(WordI(<<"s">>))>>)],
  \* references?
  [name |-> K_references, valid |-> TRUE, re |->
     Cat(<<WordI(<<"r","e","f","e","r","e","n","c","e">>), Opt(WordI(<<"s">>))>>)],
  \* professional\s*references?
  [name |-> K_references, valid |-> TRUE, re |->
     Cat(<<WordI(<<"p","r","o","f","e","s","s","i","o","n","a","l">>), Star(Ch(SpaceCh)), WordI(<<"r","e","f","e","r","e","n","c","e">>), Opt(WordI(<<"s">>))>>)],
  \* references?\s*available\s*upon\s*request
  [name |-> K_references, valid |-> TRUE, re |->
     Cat(<<WordI(<<"r","e","f","e","r","e","n","c","e">>), Opt(WordI(<<"s">>)), Star(Ch(SpaceCh)), WordI(<<"a","v","a","i","l","a","b","l","e">>), Star(Ch(SpaceCh)), WordI(<<"u","p","o","n">>), Star(Ch(SpaceCh)), WordI(<<"r","e","q","u","e","s","t">>)>>)],
  \* volunteer\s*experience|work
  [name |-> K_volunteer, valid |-> TRUE, re |->
     Alt(<<Cat(<<WordI(<<"v","o","l","u","n","t","e","e","r">>), Star(Ch(SpaceCh)), WordI(<<"e","x","p","e","r","i","e","n","c","e">>)>>), WordI(<<"w","o","r","k">>)>>)],
  \* volunteering
  [name |-> K_volunteer, valid |-> TRUE, re |->
     WordI(<<"v","o","l","u","n","t","e","e","r","i","n","g">>)],
  \* community\s*service|involvement
  [name |-> K_volunteer, valid |-> TRUE, re |->
     Alt(<<Cat(<<WordI(<<"c","o","m","m","u","n","i","t","y">>), Star(Ch(SpaceCh)), WordI(<<"s","e","r","v","i","c","e">>)>>), WordI(<<"i","n","v","o","l","v","e","m","e","n","t">>)>>)]
>>

\* _compile_contact_patterns
\* \b[A-Za-z0-9._%+-]+@[A-Za-z0-9.-]+\.[A-Z|a-z]{2,}\b
EmailRe ==
  Cat(<<WB, Plus(Ch(UpperCh \cup LowerCh \cup DigitCh \cup {".","_","%","+","-"})), Ch({"@"}), Plus(Ch(UpperCh \cup LowerCh \cup DigitCh \cup {".","-"})), Ch({"."}), Cat(<<Rep(Ch(UpperCh \cup LowerCh \cup {"|"}), 2), Star(Ch(UpperCh \cup LowerCh \cup {"|"}))>>), WB>>)
\* (\+?1?[-.\s]?)?(\(?\d{3}\)?[-.\s]?\d{3}[-.\s]?\d{4})
PhoneRe ==
  Cat(<<Opt(Grp(1, Cat(<<Opt(Ch({"+"})), Opt(Ch({"1"})), Opt(Ch(SpaceCh \cup {"-","."}))>>))), Grp(2, Cat(<<Opt(Ch({"("})), Rep(Ch(DigitCh), 3), Opt(Ch({")"})), Opt(Ch(SpaceCh \cup {"-","."})), Rep(Ch(DigitCh), 3), Opt(Ch(SpaceCh \cup {"-","."})), Rep(Ch(DigitCh), 4)>>))>>)
\* (?:linkedin\.com/in/|linkedin\.com/pub/)([A-Za-z0-9-]+)
LinkedinRe ==
  Cat(<<WordI(<<"l","i","n","k","e","d","i","n",".","c","o","m","/">>), Alt(<<WordI(<<"i","n","/">>), WordI(<<"p","u","b","/">>)>>), Grp(1, Plus(Ch(UpperCh \cup LowerCh \cup DigitCh \cup {"-"})))>>)
\* (?:github\.com/)([A-Za-z0-9-]+)
GithubRe ==
  Cat(<<WordI(<<"g","i","t","h","u","b",".","c","o","m","/">>), Grp(1, Plus(Ch(UpperCh \cup LowerCh \cup DigitCh \cup {"-"})))>>)

\* r'^\*\*(.+)\*\*$'
BoldRe == Cat(<<BOL, Word(<<"*","*">>), Grp(1, Plus(Dot)), Word(<<"*","*">>), EOL>>)

\* What _is_section_header gives: a section name, None (the empty name), or
\* the re.error raised by re.match on a core that is no regular expression.
Named(n) == [raised |-> FALSE, name |-> n]
NoSection == Named(<<>>)
Raised == [raised |-> TRUE, name |-> <<>>]

\* the nested loops of lines 186-189: the first pattern that matches, from
\* the n-th on, names the section
FirstHit(pats, hits) == IF hits = {} THEN <<>> ELSE pats[Min(hits)].name
FirstPattern(pats, line, n) ==
  FirstHit(pats, {m \in n..Len(pats) : ReMatch(pats[m].re, line).ok})

\* the nested loops of lines 195-201 over the cores, compiled one by one: the
\* loops end at the first core that does not compile or that matches
FirstStop(pats, stops) ==
  IF stops = {} THEN NoSection
  ELSE IF ~pats[Min(stops)].valid THEN Raised
  ELSE Named(pats[Min(stops)].name)
FirstCore(pats, line_lower, n) ==
  FirstStop(pats, {m \in n..Len(pats) : ~pats[m].valid \/ ReMatch(pats[m].re, line_lower).ok})

RECURSIVE _is_section_header(_)
\* lines 203-208: the bold header, tested on what the asterisks enclose
ByBold(line, bold_match) ==
  IF bold_match.ok THEN _is_section_header(Group(line, bold_match, 1)) ELSE NoSection
\* lines 193-201: the upper-case line of at most 4 words, tested on the cores
ByCore(line, byCore) ==
  IF byCore.raised \/ byCore.name # <<>> THEN byCore
  ELSE ByBold(line, ReMatch(BoldRe, line))
\* lines 186-189: the patterns themselves
ByPattern(line, byPattern) ==
  IF byPattern # <<>> THEN Named(byPattern)
  ELSE ByCore(line, IF IsUpper(line) /\ Len(Words(line)) <= 4
                    THEN FirstCore(CorePatterns, Strip(RemoveCh(Lower(line), ":")), 1)
                    ELSE NoSection)
HeaderOf(line) ==
  IF Len(line) < 2 \/ Len(line) > 50 THEN NoSection
  ELSE ByPattern(line, FirstPattern(SectionPatterns, line, 1))
_is_section_header(line) == HeaderOf(Strip(line))

\* the values of contact_patterns, in the dict's order
ContactPatterns == <<EmailRe, PhoneRe, LinkedinRe, GithubRe>>
HasContact(line) == \E n \in 1..Len(ContactPatterns) : ReSearch(ContactPatterns[n], line).ok

UnderlineCh == {"=", "-", "_", "*"}
AllUnderline(s) == \A n \in 1..Len(s) : s[n] \in UnderlineCh

_is_likely_resume_header(line0, context_lines) ==
  LET line == Strip(line0)
      words == Words(line)
      title_case_count == Cardinality({n \in 1..Len(words) : words[n][1] \in UpperCh})
      next_line == Strip(context_lines[1])
  IN  IF Len(line) < 3 THEN FALSE
      ELSE IF Len(line) > 40 THEN FALSE
      ELSE IF HasContact(line) THEN FALSE
      ELSE IF Len(words) <= 4 /\ title_case_count * 10 >= Len(words) * 7 THEN TRUE
      ELSE IF Len(words) <= 4 /\ IsUpper(line) THEN TRUE
      ELSE IF EndsWith(line, ":") THEN TRUE
      ELSE /\ Len(context_lines) > 0
           /\ Len(next_line) > 0
           /\ Len(next_line) * 2 >= Len(line)
           /\ AllUnderline(next_line)

\* lines[:n]
Take(seq, n) == SubSeq(seq, 1, IF Len(seq) < n THEN Len(seq) ELSE n)

RECURSIVE NameFrom(_, _)
\* lines 265-273: the line is skipped if it is a header, taken if it reads as a name
NameAt(lines, n, line, words, hdr) ==
  IF hdr.raised THEN Raised
  ELSE IF hdr.name # <<>> THEN NameFrom(lines, n + 1)
  ELSE IF /\ Len(words) >= 2 /\ Len(words) <= 4
          /\ \A w \in 1..Len(words) : words[w][1] \in UpperCh /\ IsAlpha(words[w])
       THEN Named(line)
  ELSE NameFrom(lines, n + 1)
\* the loop of _extract_name_from_header over the first lines; None is the empty name
NameFrom(lines, n) ==
  IF n > Len(lines) THEN NoSection
  ELSE IF Len(Strip(lines[n])) = 0 THEN NameFrom(lines, n + 1)
  ELSE IF HasContact(Strip(lines[n])) THEN NameFrom(lines, n + 1)
  ELSE NameAt(lines, n, Strip(lines[n]), Words(Strip(lines[n])),
              _is_section_header(Strip(lines[n])))
_extract_name_from_header(text) == NameFrom(Take(SplitOn(text, "\n"), 5), 1)

\* The section map is a Python dict: a sequence of [k, v] in insertion order.
Keys(d) == {d[n].k : n \in 1..Len(d)}
Get(d, k) == d[CHOOSE n \in 1..Len(d) : d[n].k = k].v
Put(d, k, v) ==
  IF k \in Keys(d) THEN [n \in 1..Len(d) |-> IF d[n].k = k THEN [k |-> k, v |-> v] ELSE d[n]]
  ELSE Append(d, [k |-> k, v |-> v])
Values(d) == [n \in 1..Len(d) |-> d[n].v]

\* lines 332-339 and 358-364: flush the buffer into the section it belongs to
SaveSection(d, section, buffer, min_section_length) ==
  LET body == Strip(Join(buffer, <<"\n">>))
  IN  IF Len(buffer) > 0 /\ Len(section) > 0 /\ Len(body) >= min_section_length
      THEN IF section \in Keys(d)
           THEN Put(d, section, Get(d, section) \o <<"\n", "\n">> \o body)
           ELSE Put(d, section, body)
      ELSE d

\* r'[^\w\s]', r'\s+' and r'[^\d+]'
NotWordSpaceRe == NCh(WordCh \cup SpaceCh)
NotDigitPlusRe == NCh(DigitCh \cup {"+"})
\* lines 321-324: the section name made from a heuristic header; empty if none
SlugOf(line) ==
  LET clean_name == ReSub(SpacesRe, <<Lit("_")>>,
                          Lower(Strip(ReSub(NotWordSpaceRe, <<>>, line))))
  IN  IF Len(clean_name) > 0 /\ Len(clean_name) <= 30 THEN clean_name ELSE <<>>

\* lines[i+1 : min(i+3, len(lines))], stripped; i counts from 0 as in the source
ContextLines(lines, i) ==
  LET last == IF i + 3 < Len(lines) THEN i + 3 ELSE Len(lines)
  IN  [n \in 1..(IF last > i + 1 THEN last - (i + 1) ELSE 0) |-> Strip(lines[i + 1 + n])]

\* text after the first ':' of the line, stripped (line.split(':', 1)[1].strip())
AfterColon(line) ==
  LET at == CHOOSE n \in 1..Len(line) : line[n] = ":" /\ \A m \in 1..(n - 1) : line[m] # ":"
  IN  Strip(Slice(line, at + 1, Len(line) + 1))

\* lines 382-389: the 'type: value' line of each kind of contact found
EmailLine(t, r) ==
  IF r.ok THEN <<<<"e","m","a","i","l",":"," ">> \o Group0(t, r)>> ELSE <<>>
PhoneLine(t, r) ==
  IF r.ok THEN <<<<"p","h","o","n","e",":"," ">> \o ReSub(NotDigitPlusRe, <<>>, Group(t, r, 2))>>
  ELSE <<>>
LinkedinLine(t, r) ==
  IF r.ok THEN <<<<"l","i","n","k","e","d","i","n",":"," ">> \o Group(t, r, 1)>> ELSE <<>>
GithubLine(t, r) ==
  IF r.ok THEN <<<<"g","i","t","h","u","b",":"," ">> \o Group(t, r, 1)>> ELSE <<>>
ContactFound(all_text) ==
  EmailLine(all_text, ReSearch(EmailRe, all_text))
  \o PhoneLine(all_text, ReSearch(PhoneRe, all_text))
  \o LinkedinLine(all_text, ReSearch(LinkedinRe, all_text))
  \o GithubLine(all_text, ReSearch(GithubRe, all_text))
WithContact(d, contact_info) ==
  IF Len(contact_info) > 0 THEN Put(d, K_contact_info, Join(contact_info, <<"\n">>)) ELSE d
_extract_contact_info(d) == WithContact(d, ContactFound(Join(Values(d), <<" ">>)))

-----------------------------------------------------------------------------
(* TextCleaner.extract_sections, one step per iteration of its while loop  *)

\* the default of min_section_length
MinSectionLength == 5

\* the empty text filed under content
EmptySections_Content == <<[k |-> K_content, v |-> <<>>]>>
\* line 289: {'other': ''}
EmptySections == <<[k |-> K_other, v |-> <<>>]>>

\* the locals of extract_sections while it scans; i counts from 0
ScanState(i_, sections_, current_section_, section_content_) ==
  [i |-> i_, sections |-> sections_, current_section |-> current_section_,
   section_content |-> section_content_, raised |-> FALSE]

\* lines 288-299: the name found before the scan (raised if the header test raises)
StartWith(candidate_name) ==
  [ScanState(0, IF candidate_name.name # <<>>
                THEN <<[k |-> K_name, v |-> candidate_name.name]>> ELSE <<>>,
             K_header, <<>>)
   EXCEPT !.raised = candidate_name.raised]
StartOf(text_) == StartWith(_extract_name_from_header(text_))

\* lines 326-353: a header line closes the section and opens its own; any
\* other line joins the buffer
ScanNamed(st, line, context_lines, section_name) ==
  IF section_name # <<>>
  THEN [i |-> st.i + (IF /\ Len(context_lines) > 0
                         /\ Len(context_lines[1]) > 0
                         /\ AllUnderline(context_lines[1]) THEN 2 ELSE 1),
        sections |-> SaveSection(st.sections, st.current_section, st.section_content,
                                 MinSectionLength),
        current_section |-> section_name,
        section_content |-> IF Contains(line, ":") /\ Len(AfterColon(line)) > 0
                            THEN <<AfterColon(line)>> ELSE <<>>,
        raised |-> FALSE]
  ELSE [st EXCEPT !.i = @ + 1, !.section_content = Append(@, line)]

\* lines 316-324: the section the line names, by the tables or by the heuristic
ScanHeader(st, line, context_lines, hdr) ==
  IF hdr.raised THEN [st EXCEPT !.raised = TRUE]
  ELSE ScanNamed(st, line, context_lines,
                 IF hdr.name # <<>> THEN hdr.name
                 ELSE IF _is_likely_resume_header(line, context_lines) THEN SlugOf(line)
                 ELSE <<>>)

\* lines 303-355: one iteration of the while loop on lines[i]
ScanLineOf(lines_, st) ==
  IF Len(Strip(lines_[st.i + 1])) = 0
  THEN [st EXCEPT !.i = @ + 1,
                  !.section_content = IF Len(@) > 0 THEN Append(@, <<>>) ELSE @]
  ELSE ScanHeader(st, Strip(lines_[st.i + 1]), ContextLines(lines_, st.i),
                  _is_section_header(Strip(lines_[st.i + 1])))

\* lines 357-373: the last flush, the fallback and the contact section
WithFallback(text_, saved) ==
  IF Len(saved) <= 1 THEN Put(saved, K_content, Strip(text_)) ELSE saved
FinishOf(text_, st) ==
  _extract_contact_info(
    WithFallback(text_, SaveSection(st.sections, st.current_section, st.section_content,
                                    MinSectionLength)))

-----------------------------------------------------------------------------
(* EntityExtractor._extract_dates and _extract_experience.                 *)

\* Python's None: a value no string equals
None == <<"None">>
Truthy(v) == v # None /\ Len(v) > 0

\* RegexPatterns.DATE_PATTERNS, in the order of the list
MonthYearRe ==
  Cat(<<WB, Alt(<<WordI(<<"j","a","n">>), WordI(<<"f","e","b">>), WordI(<<"m","a","r">>),
                  WordI(<<"a","p","r">>), WordI(<<"m","a","y">>), WordI(<<"j","u","n">>),
                  WordI(<<"j","u","l">>), WordI(<<"a","u","g">>), WordI(<<"s","e","p">>),
                  WordI(<<"o","c","t">>), WordI(<<"n","o","v">>), WordI(<<"d","e","c">>)>>),
        Star(Ch(LowerCh \cup UpperCh)), Plus(Ch(SpaceCh)), Rep(Ch(DigitCh), 4), WB>>)
DayMonthYearRe ==
  Cat(<<WB, Ch(DigitCh), Opt(Ch(DigitCh)), Ch({"/"}), Ch(DigitCh), Opt(Ch(DigitCh)),
        Ch({"/"}), Rep(Ch(DigitCh), 4), WB>>)
YearRangeRe ==
  Cat(<<WB, Rep(Ch(DigitCh), 4), Star(Ch(SpaceCh)), Ch({"-","u2013","u2014"}),
        Star(Ch(SpaceCh)), Rep(Ch(DigitCh), 4), WB>>)
YearToNowRe ==
  Cat(<<WB, Rep(Ch(DigitCh), 4), Star(Ch(SpaceCh)), Ch({"-","u2013","u2014"}),
        Star(Ch(SpaceCh)),
        Alt(<<WordI(<<"p","r","e","s","e","n","t">>), WordI(<<"c","u","r","r","e","n","t">>),
              WordI(<<"n","o","w">>)>>), WB>>)
DATE_PATTERNS == <<MonthYearRe, DayMonthYearRe, YearRangeRe, YearToNowRe>>

RECURSIVE AllMatches(_, _, _)
\* lines 254-256: the matches of each pattern in turn
AllMatches(pats, t, n) ==
  IF n > Len(pats) THEN <<>> ELSE FindAll(pats[n], t) \o AllMatches(pats, t, n + 1)
\* lines 258-264: the first occurrence of each element, in order
Unique(seq) ==
  LET firsts == {n \in 1..Len(seq) : \A m \in 1..(n - 1) : seq[m] # seq[n]}
  IN  [k \in 1..Cardinality(firsts) |->
         seq[CHOOSE n \in firsts : Cardinality({m \in firsts : m < n}) = k - 1]]
_extract_dates(t) == Unique(AllMatches(DATE_PATTERNS, t, 1))

\* line 176: r'\n(?=\w.*(?:at|@|\|)|\w.*\d{4})'
JobSplitRe ==
  Cat(<<Ch({"\n"}),
        Ahead(Cat(<<Ch(WordCh),
                    Alt(<<Cat(<<Star(Dot), Alt(<<Word(<<"a","t">>), Ch({"@"}), Ch({"|"})>>)>>),
                          Cat(<<Star(Dot), Rep(Ch(DigitCh), 4)>>)>>)>>))>>)
\* line 190: r'^(.+?)\s+(?:at|@|\||[-–—])\s+(.+?)(?:\s*\|\s*(.+?))?$', IGNORECASE
PositionCompanyRe ==
  Cat(<<BOL, Grp(1, LPlus(Dot)), Plus(Ch(SpaceCh)),
        Alt(<<WordI(<<"a","t">>), Ch({"@"}), Ch({"|"}), Ch({"-","u2013","u2014"})>>),
        Plus(Ch(SpaceCh)), Grp(2, LPlus(Dot)),
        Opt(Cat(<<Star(Ch(SpaceCh)), Ch({"|"}), Star(Ch(SpaceCh)), Grp(3, LPlus(Dot))>>)),
        EOL>>)
\* line 179: sections shorter than this are skipped
MinJobLength == 20

\* Experience() of models/schemas.py lines 21-27
NewExperience ==
  [company |-> None, position |-> None, start_date |-> None, end_date |-> None,
   description |-> None, location |-> None]

\* lines 195-199: the parts of the first line the pattern separates
WithPositionCompany(e, first_line, m) ==
  [e EXCEPT !.position = Strip(Group(first_line, m, 1)),
            !.company = Strip(Group(first_line, m, 2)),
            !.location = IF Len(Group(first_line, m, 3)) > 0
                         THEN Strip(Group(first_line, m, 3)) ELSE @]

\* str.find: the 0-based index of the first occurrence, -1 if there is none
Find(s, sub) ==
  LET at == {n \in 1..(Len(s) - Len(sub) + 1) : SubSeq(s, n, n + Len(sub) - 1) = sub}
  IN  IF at = {} THEN -1 ELSE Min(at) - 1

\* lines 201-209: orgs is what the language model labels ORG on the first
\* line; org is its first element, None if it is empty
WithOrg(e, first_line, org) ==
  IF org = None THEN e
  ELSE [e EXCEPT !.company = org,
                 !.position = IF Find(first_line, org) > 0
                              THEN Strip(Slice(first_line, 1, Find(first_line, org) + 1))
                              ELSE @]

\* lines 212-217
WithDates(e, dates) ==
  IF Len(dates) >= 2 THEN [e EXCEPT !.start_date = dates[1], !.end_date = dates[2]]
  ELSE IF Len(dates) = 1 THEN [e EXCEPT !.end_date = dates[1]]
  ELSE e

\* lines 220-221
WithDescription(e, ls) ==
  IF Len(ls) > 1 THEN [e EXCEPT !.description = Strip(Join(Tail(ls), <<"\n">>))] ELSE e

\* lines 223-224
Kept(list, e) == IF Truthy(e.company) \/ Truthy(e.position) THEN Append(list, e) ELSE list

\* lines 211-224: what follows the first line's parse
Completed(list, e, section) ==
  Kept(list, WithDescription(WithDates(e, _extract_dates(section)),
                             SplitOn(Strip(section), "\n")))

\* lines 184-185
FirstLine(section) == SplitOn(Strip(section), "\n")[1]

\* The entity spans the language model can label on a line: runs of its words
OrgSpans(line) ==
  {Join(SubSeq(Words(line), a, b), <<" ">>) :
     a \in 1..Len(Words(line)), b \in 1..Len(Words(line))} \ {<<>>}

\* EntityExtractor._extract_education
\* line 131: r'\n(?=\w)'
BlockSplitRe == Cat(<<Ch({"\n"}), Ahead(Ch(WordCh))>>)
\* RegexPatterns.DEGREE_PATTERNS (IGNORECASE)
DegreeRe ==
  Cat(<<WB, Alt(<<WordI(<<"b","a","c","h","e","l","o","r">>), WordI(<<"m","a","s","t","e","r">>), WordI(<<"p","h","d">>), WordI(<<"p","h",".","d">>),
                  WordI(<<"m","b","a">>), WordI(<<"m","s">>), WordI(<<"b","s">>), WordI(<<"b","a">>), WordI(<<"m","a">>),
                  WordI(<<"m",".","s",".">>), WordI(<<"b",".","s",".">>), WordI(<<"b",".","a",".">>), WordI(<<"m",".","a",".">>)>>),
        Opt(Cat(<<Plus(Ch(SpaceCh)), Alt(<<WordI(<<"o","f">>), WordI(<<"i","n">>), WordI(<<"d","e","g","r","e","e">>)>>)>>)), Plus(Ch(SpaceCh)), Plus(Ch(WordCh \cup SpaceCh \cup {"&",",","-"}))>>)
\* RegexPatterns.GPA_PATTERN (IGNORECASE)
GpaRe ==
  Cat(<<WordI(<<"g">>), Alt(<<WordI(<<"p","a">>), WordI(<<"r","a","d","e"," ","p","o","i","n","t"," ","a","v","e","r","a","g","e">>)>>),
        Star(Ch(SpaceCh \cup {":"})), Grp(1, Cat(<<Plus(Ch(DigitCh)), Opt(Ch({"."})), Star(Ch(DigitCh))>>)), Star(Ch(SpaceCh)),
        Opt(Cat(<<Ch({"/"}), Star(Ch(SpaceCh)), Plus(Ch(DigitCh)), Opt(Ch({"."})), Star(Ch(DigitCh))>>))>>)
\* line 134: blocks shorter than this are skipped
MinBlockLength == 10
\* Education() of models/schemas.py lines 13-19
NewEducation ==
  [institution |-> None, degree |-> None, field_of_study |-> None, start_date |-> None,
   end_date |-> None, gpa |-> None]
\* lines 140-142
WithDegree(e, section, degree_match) ==
  IF degree_match.ok THEN [e EXCEPT !.degree = Strip(Group0(section, degree_match))] ELSE e
\* lines 145-147
WithGpa(e, section, gpa_match) ==
  IF gpa_match.ok THEN [e EXCEPT !.gpa = Group(section, gpa_match, 1)] ELSE e
\* lines 150-153: org is the first entity the language model labels ORG in
\* the block, None if there is none
WithInstitution(e, org) == IF org = None THEN e ELSE [e EXCEPT !.institution = org]
\* lines 162-163
KeptEducation(list, e) ==
  IF Truthy(e.institution) \/ Truthy(e.degree) THEN Append(list, e) ELSE list
\* lines 137-163: one block, given the organisation labelled in it
EducationOf(list, section, org) ==
  KeptEducation(list,
    WithDates(WithInstitution(WithGpa(WithDegree(NewEducation, section,
                                                 ReSearch(DegreeRe, section)),
                                      section, ReSearch(GpaRe, section)),
                              org),
              _extract_dates(section)))

-----------------------------------------------------------------------------
(* Scores (app/methods/old.py).  A score is kept exactly, as the fraction  *)
(* [n, d] with d > 0, where the code holds its floating-point value.       *)

S_python == <<"p","y","t","h","o","n">>
S_python3 == <<"p","y","t","h","o","n","3">>
S_sql == <<"s","q","l">>
S_aws == <<"a","w","s">>
S_java == <<"j","a","v","a">>
S_javascript == <<"j","a","v","a","s","c","r","i","p","t">>
S_react == <<"r","e","a","c","t">>
S_docker == <<"d","o","c","k","e","r">>
S_kubernetes == <<"k","u","b","e","r","n","e","t","e","s">>

Frac(n, d) == [n |-> n, d |-> d]
Geq(x, y) == x.n * y.d >= y.n * x.d
\* round(x, 2) in hundredths: the nearest, the even one of two equally near
Round2(x) ==
  LET q == x.n \div x.d
      r == x.n % x.d
      h == (r * 100) \div x.d
      r2 == (r * 100) % x.d
      base == q * 100 + h
  IN  IF 2 * r2 > x.d THEN base + 1
      ELSE IF 2 * r2 = x.d /\ base % 2 = 1 THEN base + 1
      ELSE base

\* the characters of a skill, in code-point order
CharOrder ==
  <<" ", "0","1","2","3","4","5","6","7","8","9",
    "a","b","c","d","e","f","g","h","i","j","k","l","m",
    "n","o","p","q","r","s","t","u","v","w","x","y","z">>
Rank(c) == CHOOSE n \in 1..Len(CharOrder) : CharOrder[n] = c
\* a < b for strings
Before(a, b) ==
  \E n \in 1..(Min({Len(a), Len(b)}) + 1) :
    /\ \A m \in 1..(n - 1) : a[m] = b[m]
    /\ IF n > Len(a) THEN n <= Len(b)
       ELSE n <= Len(b) /\ Rank(a[n]) < Rank(b[n])
\* sorted(tokens)
Sorted(tokens) ==
  LET place(k) == Cardinality({m \in 1..Len(tokens) :
                     Before(tokens[m], tokens[k]) \/ (tokens[m] = tokens[k] /\ m < k)}) + 1
  IN  [p \in 1..Len(tokens) |-> tokens[CHOOSE k \in 1..Len(tokens) : place(k) = p]]

RECURSIVE LcsRow(_, _, _, _, _)
\* row i of the longest-common-subsequence table of a and b, from row i - 1;
\* a row is indexed from 1 for column 0
LcsRow(a, b, i, prev, cur) ==
  IF Len(cur) = Len(b) + 1 THEN cur
  ELSE LET j == Len(cur)
       IN  LcsRow(a, b, i, prev,
                  Append(cur, IF a[i] = b[j] THEN prev[j] + 1
                              ELSE Max({prev[j + 1], cur[j]})))
RECURSIVE LcsFrom(_, _, _, _)
LcsFrom(a, b, i, prev) ==
  IF i > Len(a) THEN prev[Len(b) + 1]
  ELSE LcsFrom(a, b, i + 1, LcsRow(a, b, i, prev, <<0>>))
Lcs(a, b) == LcsFrom(a, b, 1, [j \in 1..(Len(b) + 1) |-> 0])

\* fuzz.ratio: 100 * (1 - indel distance / (len(a) + len(b)))
ratio(a, b) ==
  IF Len(a) + Len(b) = 0 THEN Frac(100, 1) ELSE Frac(200 * Lcs(a, b), Len(a) + Len(b))
\* fuzz.token_sort_ratio: the ratio of the texts with their words sorted
token_sort_ratio(a, b) ==
  ratio(Join(Sorted(Words(a)), <<" ">>), Join(Sorted(Words(b)), <<" ">>))

\* the skills the extraction is taken to find
SkillUniverse == {S_python, S_python3, S_sql, S_aws}
\* token_sort_ratio over these, computed once
SkillRatios == [pair \in SkillUniverse \X SkillUniverse |-> token_sort_ratio(pair[1], pair[2])]
scorer(a, b) ==
  IF <<a, b>> \in DOMAIN SkillRatios THEN SkillRatios[<<a, b>>] ELSE token_sort_ratio(a, b)

\* the greatest of a non-empty set of scores
Best(scores) == CHOOSE x \in scores : \A y \in scores : Geq(x, y)
\* a score equal to the cutoff refused
Chosen_AboveCutoff(best, cutoff) ==
  IF Geq(best, Frac(cutoff, 1)) /\ ~Geq(Frac(cutoff, 1), best)
  THEN [found |-> TRUE, score |-> best]
  ELSE [found |-> FALSE, score |-> Frac(0, 1)]
\* the cutoff forgotten
Chosen_NoCutoff(best, cutoff) == [found |-> TRUE, score |-> best]
Chosen(best, cutoff) ==
  IF Geq(best, Frac(cutoff, 1)) THEN [found |-> TRUE, score |-> best]
  ELSE [found |-> FALSE, score |-> Frac(0, 1)]
\* process.extractOne(query, choices, scorer, score_cutoff): the best score
\* among the choices if it reaches the cutoff; found is FALSE for None
extractOne(query, choices, cutoff) ==
  IF choices = {} THEN [found |-> FALSE, score |-> Frac(0, 1)]
  ELSE Chosen(Best({scorer(query, c) : c \in choices}), cutoff)

\* lines 113-128: the job skills with a match, and the score of each
fuzzy_match_skills(resume_skills_, jd_skills_, threshold_) ==
  LET matched == {j \in jd_skills_ : extractOne(j, resume_skills_, threshold_).found}
  IN  [matched_skills |-> matched,
       skill_scores |-> [j \in matched |-> extractOne(j, resume_skills_, threshold_).score]]

\* line 150
critical_skills ==
  {S_python, S_java, S_javascript, S_react, S_sql, S_aws, S_docker, S_kubernetes}

\* line 141: the threshold calculate_enhanced_ats_score matches with
MatchThreshold == 85
\* lines 169-172: the weights, in hundredths
SemanticWeight == 40
SkillWeight == 35
CriticalWeight == 20
LengthWeight == 5

\* the cosine is k / CosDen for an integer k
CosDen == 7

\* line 136
SemanticOf(k) == Frac(k * 100, CosDen)
\* the percentage by integer division
SkillMatchOf_Truncated(matched, jd) ==
  IF jd # {} THEN Frac((Cardinality(matched) * 100) \div Cardinality(jd), 1) ELSE Frac(0, 1)
\* lines 144-147
SkillMatchOf(matched, jd) ==
  IF jd # {} THEN Frac(Cardinality(matched) * 100, Cardinality(jd)) ELSE Frac(0, 1)
\* lines 151-157
CriticalMatchOf(resume, jd) ==
  LET jd_critical == jd \cap critical_skills
      resume_critical == resume \cap critical_skills
  IN  IF jd_critical # {}
      THEN Frac(Cardinality(jd_critical \cap resume_critical) * 100, Cardinality(jd_critical))
      ELSE Frac(100, 1)
\* the denominator not floored at 100
LengthRatioOf_NoFloor(rw, jw) == IF rw >= 2 * jw THEN Frac(2, 1) ELSE Frac(rw, jw)
\* the ratio not capped at 2
LengthRatioOf_Uncapped(rw, jw) == Frac(rw, Max({jw, 100}))
\* line 164: min(resume_words / max(jd_words, 100), 2.0)
LengthRatioOf(rw, jw) ==
  IF rw >= 2 * Max({jw, 100}) THEN Frac(2, 1) ELSE Frac(rw, Max({jw, 100}))
\* the distance from 1 added where it is to be taken off
LengthOf_Added(r) ==
  Frac(100 * r.d + 50 * (IF r.n >= r.d THEN r.n - r.d ELSE r.d - r.n), r.d)
\* line 165: max(0, 100 - abs(1 - length_ratio) * 50)
LengthOf(r) ==
  LET away == IF r.n >= r.d THEN r.n - r.d ELSE r.d - r.n
  IN  IF 100 * r.d - 50 * away < 0 THEN Frac(0, 1) ELSE Frac(100 * r.d - 50 * away, r.d)
\* the weights of the skill and critical scores exchanged
FinalOf_Exchanged(s, k, c, l) ==
  Frac(SemanticWeight * s.n * (k.d * c.d * l.d) + CriticalWeight * k.n * (s.d * c.d * l.d)
         + SkillWeight * c.n * (s.d * k.d * l.d) + LengthWeight * l.n * (s.d * k.d * c.d),
       100 * s.d * k.d * c.d * l.d)
\* lines 168-173
FinalOf(s, k, c, l) ==
  Frac(SemanticWeight * s.n * (k.d * c.d * l.d) + SkillWeight * k.n * (s.d * c.d * l.d)
         + CriticalWeight * c.n * (s.d * k.d * l.d) + LengthWeight * l.n * (s.d * k.d * c.d),
       100 * s.d * k.d * c.d * l.d)

\* lines 133-173: the scores before rounding
ScoresOf(k, rw, jw, resume, jd, matched) ==
  [semantic_score |-> SemanticOf(k),
   skill_match_score |-> SkillMatchOf(matched, jd),
   critical_match_score |-> CriticalMatchOf(resume, jd),
   length_score |-> LengthOf(LengthRatioOf(rw, jw)),
   final_score |-> FinalOf(SemanticOf(k), SkillMatchOf(matched, jd),
                           CriticalMatchOf(resume, jd), LengthOf(LengthRatioOf(rw, jw)))]

\* lines 175-188: the report; the scores are in hundredths, the two lists
\* are kept as the sets they are made from
ReportOf(sc, resume, jd, fm) ==
  [semantic_score |-> Round2(sc.semantic_score),
   skill_match_score |-> Round2(sc.skill_match_score),
   critical_match_score |-> Round2(sc.critical_match_score),
   length_score |-> Round2(sc.length_score),
   final_score |-> Round2(sc.final_score),
   matched_skills |-> fm.matched_skills,
   missing_skills |-> jd \ fm.matched_skills,
   skill_scores |-> fm.skill_scores,
   total_jd_skills |-> Cardinality(jd),
   total_resume_skills |-> Cardinality(resume)]

\* generate_improvement_suggestions (lines 190-214).  A suggestion is a
\* string; the fixed text of each, its leading symbol included, is held as
\* one element.
L_Critical == <<"CRITICAL: ATS score is below recommended threshold (70%)">>
L_Moderate == <<"MODERATE: ATS score has room for improvement">>
L_Good == <<"GOOD: ATS score is competitive">>
L_AddMissing == <<"ADD MISSING SKILLS: ">>
L_ImproveContent ==
  <<"IMPROVE CONTENT ALIGNMENT: Use more keywords from the job description">>
L_HighlightCritical ==
  <<"HIGHLIGHT CRITICAL SKILLS: Emphasize key technical skills more prominently">>
TopMissing == 5
\* sorted(list(results['missing_skills'])), of a list without repetitions
SortedList(skills) ==
  [p \in 1..Cardinality(skills) |->
     CHOOSE x \in skills : Cardinality({y \in skills : Before(y, x)}) = p - 1]
\* all the missing skills named
top_missing_All(skills) == SortedList(skills)
\* line 203: sorted(...)[:5]
top_missing(skills) == Take(SortedList(skills), TopMissing)
\* lines 194-199
VerdictOf(final_score) ==
  IF final_score < 7000 THEN L_Critical
  ELSE IF final_score < 8500 THEN L_Moderate
  ELSE L_Good
\* lines 202-204
MissingOf(missing_skills) ==
  IF missing_skills # {}
  THEN <<L_AddMissing \o Join(top_missing(missing_skills), <<",", " ">>)>>
  ELSE <<>>
\* lines 207-208
AlignmentOf(semantic_score) == IF semantic_score < 7000 THEN <<L_ImproveContent>> ELSE <<>>
\* lines 211-212
CriticalOf(critical_match_score) ==
  IF critical_match_score < 8000 THEN <<L_HighlightCritical>> ELSE <<>>
generate_improvement_suggestions(results) ==
  <<VerdictOf(results.final_score)>> \o MissingOf(results.missing_skills)
    \o AlignmentOf(results.semantic_score) \o CriticalOf(results.critical_match_score)

-----------------------------------------------------------------------------
(* SkillsDatabase and the lists of EntityExtractor.extract_entities        *)

\* SkillsDatabase._load_skills_database: the skills of the categories, in order
skills_db ==
  << <<"P","y","t","h","o","n">>, <<"J","a","v","a">>,
     <<"J","a","v","a","S","c","r","i","p","t">>, <<"T","y","p","e","S","c","r","i","p","t">>,
     <<"C","+","+">>, <<"C","#">>, <<"G","o">>, <<"R","u","s","t">>, <<"R","u","b","y">>,
     <<"P","H","P">>, <<"S","w","i","f","t">>, <<"K","o","t","l","i","n">>,
     <<"S","c","a","l","a">>, <<"R">>, <<"M","A","T","L","A","B">>, <<"P","e","r","l">>,
     <<"O","b","j","e","c","t","i","v","e","-","C">>, <<"D","a","r","t">>,
     <<"E","l","i","x","i","r">>, <<"H","a","s","k","e","l","l">>, <<"J","u","l","i","a">>,
     <<"C","l","o","j","u","r","e">>, <<"R","e","a","c","t">>, <<"A","n","g","u","l","a","r">>,
     <<"V","u","e",".","j","s">>, <<"N","o","d","e",".","j","s">>,
     <<"E","x","p","r","e","s","s",".","j","s">>, <<"D","j","a","n","g","o">>,
     <<"F","l","a","s","k">>, <<"S","p","r","i","n","g"," ","B","o","o","t">>,
     <<"A","S","P",".","N","E","T">>, <<"L","a","r","a","v","e","l">>, <<"R","a","i","l","s">>,
     <<"F","a","s","t","A","P","I">>, <<"N","e","x","t",".","j","s">>,
     <<"N","u","x","t",".","j","s">>, <<"S","v","e","l","t","e">>,
     <<"G","r","a","p","h","Q","L">>, <<"R","E","S","T"," ","A","P","I">>,
     <<"W","e","b","S","o","c","k","e","t">>, <<"M","y","S","Q","L">>,
     <<"P","o","s","t","g","r","e","S","Q","L">>, <<"M","o","n","g","o","D","B">>,
     <<"R","e","d","i","s">>, <<"E","l","a","s","t","i","c","s","e","a","r","c","h">>,
     <<"C","a","s","s","a","n","d","r","a">>, <<"N","e","o","4","j">>,
     <<"D","y","n","a","m","o","D","B">>, <<"S","Q","L","i","t","e">>,
     <<"O","r","a","c","l","e">>, <<"S","Q","L"," ","S","e","r","v","e","r">>,
     <<"M","a","r","i","a","D","B">>, <<"C","o","u","c","h","D","B">>,
     <<"I","n","f","l","u","x","D","B">>, <<"A","m","a","z","o","n"," ","R","D","S">>,
     <<"A","W","S">>, <<"A","z","u","r","e">>,
     <<"G","o","o","g","l","e"," ","C","l","o","u","d">>, <<"G","C","P">>,
     <<"H","e","r","o","k","u">>, <<"D","i","g","i","t","a","l","O","c","e","a","n">>,
     <<"K","u","b","e","r","n","e","t","e","s">>, <<"D","o","c","k","e","r">>,
     <<"T","e","r","r","a","f","o","r","m">>,
     <<"C","l","o","u","d","F","o","r","m","a","t","i","o","n">>,
     <<"A","n","s","i","b","l","e">>, <<"J","e","n","k","i","n","s">>,
     <<"G","i","t","L","a","b"," ","C","I">>,
     <<"G","i","t","H","u","b"," ","A","c","t","i","o","n","s">>,
     <<"C","i","r","c","l","e","C","I">>,
     <<"M","a","c","h","i","n","e"," ","L","e","a","r","n","i","n","g">>,
     <<"D","e","e","p"," ","L","e","a","r","n","i","n","g">>, <<"N","L","P">>,
     <<"C","o","m","p","u","t","e","r"," ","V","i","s","i","o","n">>,
     <<"T","e","n","s","o","r","F","l","o","w">>, <<"P","y","T","o","r","c","h">>,
     <<"S","c","i","k","i","t","-","l","e","a","r","n">>, <<"P","a","n","d","a","s">>,
     <<"N","u","m","P","y">>, <<"M","a","t","p","l","o","t","l","i","b">>,
     <<"S","e","a","b","o","r","n">>, <<"J","u","p","y","t","e","r">>,
     <<"A","p","a","c","h","e"," ","S","p","a","r","k">>, <<"H","a","d","o","o","p">>,
     <<"T","a","b","l","e","a","u">>, <<"P","o","w","e","r"," ","B","I">>,
     <<"A","p","a","c","h","e"," ","K","a","f","k","a">>,
     <<"A","p","a","c","h","e"," ","A","i","r","f","l","o","w">>,
     <<"R","e","a","c","t"," ","N","a","t","i","v","e">>, <<"F","l","u","t","t","e","r">>,
     <<"A","n","d","r","o","i","d">>, <<"i","O","S">>, <<"X","a","m","a","r","i","n">>,
     <<"I","o","n","i","c">>, <<"C","o","r","d","o","v","a">>, <<"U","n","i","t","y">>,
     <<"U","n","r","e","a","l"," ","E","n","g","i","n","e">>,
     <<"L","e","a","d","e","r","s","h","i","p">>,
     <<"C","o","m","m","u","n","i","c","a","t","i","o","n">>,
     <<"P","r","o","b","l","e","m"," ","S","o","l","v","i","n","g">>,
     <<"T","e","a","m"," ","W","o","r","k">>,
     <<"P","r","o","j","e","c","t"," ","M","a","n","a","g","e","m","e","n","t">>,
     <<"A","g","i","l","e">>, <<"S","c","r","u","m">>,
     <<"C","r","i","t","i","c","a","l"," ","T","h","i","n","k","i","n","g">>,
     <<"A","n","a","l","y","t","i","c","a","l"," ","T","h","i","n","k","i","n","g">>,
     <<"C","r","e","a","t","i","v","i","t","y">>,
     <<"A","d","a","p","t","a","b","i","l","i","t","y">> >>
\* sub in s, for strings
HasSub(s, sub) == Find(s, sub) >= 0
\* _create_skill_variations, lines 58-63: the alias added after a skill
AliasOf(skill) ==
  IF skill = <<"J","a","v","a","S","c","r","i","p","t">> THEN <<"j","s">>
  ELSE IF skill = <<"T","y","p","e","S","c","r","i","p","t">> THEN <<"t","s">>
  ELSE IF skill = <<"P","y","t","h","o","n">> THEN <<"p","y","t","h","o","n","3">>
  ELSE <<>>
\* the skills that have an alias, and where the loop assigns the lower-case
\* name of skill n: after one assignment for each earlier skill and alias
Aliased == {n \in 1..Len(skills_db) : Len(AliasOf(skills_db[n])) > 0}
FirstPut(n) == n + Cardinality({m \in Aliased : m < n})
\* lines 53-63: the assignments variations[key] = skill, in the order made
Assignments ==
  [p \in 1..(Len(skills_db) + Cardinality(Aliased)) |->
     IF \E n \in 1..Len(skills_db) : FirstPut(n) = p
     THEN LET n == CHOOSE n \in 1..Len(skills_db) : FirstPut(n) = p
          IN  [k |-> Lower(skills_db[n]), v |-> skills_db[n]]
     ELSE LET n == CHOOSE n \in Aliased : FirstPut(n) = p - 1
          IN  [k |-> AliasOf(skills_db[n]), v |-> skills_db[n]]]
\* the dict a sequence of assignments builds: each key where it was first
\* assigned, with the value last assigned to it
DictOf(puts) ==
  LET firsts == {p \in 1..Len(puts) : \A q \in 1..(p - 1) : puts[q].k # puts[p].k}
      last(k) == Max({q \in 1..Len(puts) : puts[q].k = k})
  IN  [n \in 1..Cardinality(firsts) |->
         [k |-> puts[Nth(firsts, n)].k, v |-> puts[last(puts[Nth(firsts, n)].k)].v]]
\* _create_skill_variations: lower-case name or alias -> skill
skill_variations == DictOf(Assignments)

RECURSIVE FindGroupsFrom(_, _, _)
GroupsFrom(re, s, r) ==
  IF ~r.ok THEN <<>>
  ELSE <<Group(s, r, 1)>> \o FindGroupsFrom(re, s, IF r.p > r.b THEN r.p ELSE r.b + 1)
\* pattern.findall(s) for a pattern with one group: the texts of the group
FindGroupsFrom(re, s, from) == GroupsFrom(re, s, SearchFrom(re, s, from))
FindGroups(re, s) == FindGroupsFrom(re, s, 1)
\* the elements of a sequence
Range(seq) == {seq[n] : n \in 1..Len(seq)}
RECURSIVE ListOf(_)
\* list(a set): its elements once each; Python fixes no order
ListOf(set) ==
  IF set = {} THEN <<>>
  ELSE LET x == CHOOSE x \in set : TRUE IN <<x>> \o ListOf(set \ {x})

\* r'\b(\w+)\.js\b', r'\b(\w+)SQL\b', r'\bApache\s+(\w+)\b', re.IGNORECASE
JsRe == Cat(<<WB, Grp(1, Plus(Ch(WordCh))), WordI(<<".","j","s">>), WB>>)
SqlRe == Cat(<<WB, Grp(1, Plus(Ch(WordCh))), WordI(<<"s","q","l">>), WB>>)
ApacheRe ==
  Cat(<<WB, WordI(<<"a","p","a","c","h","e">>), Plus(Ch(SpaceCh)), Grp(1, Plus(Ch(WordCh))), WB>>)
\* lines 73-75: the skills one of whose lower-case names the text holds
DirectSkills(text_lower) ==
  {skill_variations[n].v : n \in {m \in 1..Len(skill_variations) :
                                    HasSub(text_lower, skill_variations[m].k)}}
\* lines 85-91: the group of each match, '.js' added for the first pattern,
\* kept if it is the name of a skill
PatternSkills(text) ==
  ({g \o <<".","j","s">> : g \in Range(FindGroups(JsRe, text))}
     \cup Range(FindGroups(SqlRe, text)) \cup Range(FindGroups(ApacheRe, text)))
    \cap Range(Values(skill_variations))
\* SkillsDatabase.extract_skills
extract_skills(text) == ListOf(DirectSkills(Lower(text)) \cup PatternSkills(text))

\* r'[bullets*-]' and r'[,;|\n]'
BulletRe == Ch({"u2022","u25e6","u25aa","u25ab","u2023","u2043","*","-"})
CandidateSplitRe == Ch({",",";","|","\n"})
MaxSkillLength == 50
\* lines 242-245: the skills of one candidate, if it is not empty and short
OfCandidate(candidate) ==
  IF Len(candidate) > 0 /\ Len(candidate) < MaxSkillLength THEN extract_skills(candidate)
  ELSE <<>>
RECURSIVE FromCandidates(_, _)
\* lines 240-245
FromCandidates(skill_candidates, skills) ==
  IF Len(skill_candidates) = 0 THEN skills
  ELSE FromCandidates(Tail(skill_candidates), skills \o OfCandidate(Strip(Head(skill_candidates))))
\* lines 233-245: the list before the duplicates are removed
SkillsFound(skills_text) ==
  FromCandidates(ReSplit(CandidateSplitRe, ReSub(BulletRe, <<>>, skills_text)),
                 extract_skills(skills_text))
\* line 248: list(set(skills))
Deduped(skills) == ListOf(Range(skills))
\* EntityExtractor._extract_skills
_extract_skills(skills_text) ==
  IF Len(skills_text) = 0 THEN <<>> ELSE Deduped(SkillsFound(skills_text))

cert_keywords ==
  << <<"c","e","r","t","i","f","i","e","d">>,
     <<"c","e","r","t","i","f","i","c","a","t","i","o","n">>,
     <<"c","e","r","t","i","f","i","c","a","t","e">>, <<"l","i","c","e","n","s","e">>,
     <<"c","r","e","d","e","n","t","i","a","l">>, <<"A","W","S">>,
     <<"G","o","o","g","l","e"," ","C","l","o","u","d">>, <<"A","z","u","r","e">>,
     <<"P","M","P">>, <<"C","I","S","S","P">>, <<"C","o","m","p","T","I","A">> >>
MinCertLength == 10
MaxCertLength == 100
\* lines 280-281
IsCertification(line) ==
  /\ \E n \in 1..Len(cert_keywords) : HasSub(Lower(line), Lower(cert_keywords[n]))
  /\ MinCertLength < Len(line) /\ Len(line) < MaxCertLength
StrippedLines(lines0) == [n \in 1..Len(lines0) |-> Strip(lines0[n])]
\* EntityExtractor._extract_certifications
_extract_certifications(text) == SelectSeq(StrippedLines(SplitOn(text, "\n")), IsCertification)

common_languages ==
  << <<"E","n","g","l","i","s","h">>, <<"S","p","a","n","i","s","h">>,
     <<"F","r","e","n","c","h">>, <<"G","e","r","m","a","n">>, <<"C","h","i","n","e","s","e">>,
     <<"J","a","p","a","n","e","s","e">>, <<"K","o","r","e","a","n">>,
     <<"A","r","a","b","i","c">>, <<"R","u","s","s","i","a","n">>,
     <<"P","o","r","t","u","g","u","e","s","e">>, <<"I","t","a","l","i","a","n">>,
     <<"D","u","t","c","h">>, <<"H","i","n","d","i">>, <<"B","e","n","g","a","l","i">>,
     <<"M","a","n","d","a","r","i","n">>, <<"C","a","n","t","o","n","e","s","e">> >>
Spoken(text_lower, languages) ==
  LET said(lang) == HasSub(text_lower, Lower(lang)) IN SelectSeq(languages, said)
\* EntityExtractor._extract_languages
_extract_languages(text) == Spoken(Lower(text), common_languages)

\* extract_entities, lines 67-78: the three lists of the ResumeData and its
\* summary; personal_info, education, experience and projects are set from
\* the text and the sections without reading or changing these four
extract_entities(text0, sections0) ==
  [skills |-> IF K_skills \in Keys(sections0) THEN _extract_skills(Get(sections0, K_skills))
              ELSE extract_skills(text0),
   summary |-> IF K_summary \in Keys(sections0) THEN Get(sections0, K_summary) ELSE None,
   certifications |-> _extract_certifications(text0),
   languages |-> _extract_languages(text0)]

-----------------------------------------------------------------------------
(* PDFExtractor and ResumeParser.  A file is given by what the code reads  *)
(* of it: its path, whether it exists, its size, the pages PyMuPDF and     *)
(* pdfplumber read from it (or that they fail on it) and its metadata.     *)

\* the digits of a natural number
DigitSeq == <<"0","1","2","3","4","5","6","7","8","9">>
DecimalOf(n) ==
  LET len == Cardinality({k \in 1..9 : n >= 10 ^ k}) + 1
  IN  [p \in 1..len |-> DigitSeq[((n \div (10 ^ (len - p))) % 10) + 1]]

\* a back-end that raises on the file, caught at lines 51-52 and 75-76
Unreadable == <<None>>
\* f"\n--- PAGE {page_num + 1} ---\n{page_text}"
PageOf(n, page_text) ==
  <<"\n","-","-","-"," ","P","A","G","E"," ">> \o DecimalOf(n)
    \o <<" ","-","-","-","\n">> \o page_text
\* lines 46-50: every page is added
PymupdfPages(pages) == [n \in 1..Len(pages) |-> PageOf(n, pages[n])]
\* lines 62-66: a page is added if its text is not empty
PlumberPages(pages) ==
  [n \in 1..Len(pages) |-> IF Len(pages[n]) > 0 THEN PageOf(n, pages[n]) ELSE <<>>]
\* PDFExtractor._extract_with_pymupdf
_extract_with_pymupdf(f) ==
  IF f.fitz = Unreadable THEN <<>> ELSE Join(PymupdfPages(f.fitz), <<>>)
\* PDFExtractor._extract_with_pdfplumber: the text; the tables are kept in the file
_extract_with_pdfplumber(f) ==
  IF f.plumber = Unreadable THEN <<>> ELSE Join(PlumberPages(f.plumber), <<>>)
\* dict.get(key, '')
GetOr(d, k, default) == IF k \in Keys(d) THEN Get(d, k) ELSE default
M_title == <<"t","i","t","l","e">>
M_author == <<"a","u","t","h","o","r">>
M_page_count == <<"p","a","g","e","_","c","o","u","n","t">>
\* lines 85-94, for the fields the model holds
MetadataOf(pages, meta) ==
  <<[k |-> M_page_count, v |-> DecimalOf(Len(pages))],
    [k |-> M_title, v |-> GetOr(meta, M_title, <<>>)],
    [k |-> M_author, v |-> GetOr(meta, M_author, <<>>)]>>
\* PDFExtractor._extract_metadata
_extract_metadata(f) ==
  IF f.fitz = Unreadable THEN <<>> ELSE MetadataOf(f.fitz, f.meta)
\* lines 29-30
Longer(layout_text, text0) == IF Len(layout_text) > Len(text0) THEN layout_text ELSE text0
\* PDFExtractor.extract_text, with use_layout_analysis as configured: the
\* three helpers catch what they raise, so nothing reaches lines 38-40
extract_text(f) ==
  [text |-> Longer(_extract_with_pdfplumber(f), _extract_with_pymupdf(f)),
   metadata |-> _extract_metadata(f)]

RECURSIVE ScanAll(_, _)
\* lines 302-355: the while loop
ScanAll(lines_, st) ==
  IF st.raised \/ st.i >= Len(lines_) THEN st
  ELSE Apply(LAMBDA next : ScanAll(lines_, next), ScanLineOf(lines_, st))
Scanned(text_, st) ==
  IF st.raised THEN [raised |-> TRUE, sections |-> <<>>]
  ELSE [raised |-> FALSE, sections |-> FinishOf(text_, st)]
\* TextCleaner.extract_sections as one call
extract_sections(text_) ==
  IF Len(text_) = 0 THEN [raised |-> FALSE, sections |-> EmptySections]
  ELSE Apply(LAMBDA st : Scanned(text_, ScanAll(SplitOn(text_, "\n"), st)), StartOf(text_))

\* Config.MAX_FILE_SIZE_MB, and the bytes of a megabyte (line 140)
MaxFileSizeMb == 10
BytesPerMb == 1048576
\* Path.name and Path.suffix
NameOf(path) == Slice(path, Max({0} \cup {n \in 1..Len(path) : path[n] = "/"}) + 1, Len(path) + 1)
DotOf(name) == Max({0} \cup {n \in 1..Len(name) : name[n] = "."})
SuffixOf(name) ==
  IF 1 < DotOf(name) /\ DotOf(name) < Len(name) THEN Slice(name, DotOf(name), Len(name) + 1)
  ELSE <<>>
Suffix(path) == SuffixOf(NameOf(path))
\* f"{x:.1f}" of st_size / (1024 * 1024): the nearest tenth, the even one of two
TenthsOf(st_size) ==
  LET q == (10 * st_size) \div BytesPerMb
      r == (10 * st_size) % BytesPerMb
  IN  IF 2 * r > BytesPerMb \/ (2 * r = BytesPerMb /\ q % 2 = 1) THEN q + 1 ELSE q
OneDecimal(tenths) == DecimalOf(tenths \div 10) \o <<".">> \o DecimalOf(tenths % 10)

E_FileNotFoundError == "FileNotFoundError"
E_ValueError == "ValueError"
E_re_error == "re.error"
NoError == [type |-> "", message |-> <<>>]
ErrorOf(type, message) == [type |-> type, message |-> message]
\* the existence test skipped
_validate_input_AnyFile(f) ==
  IF Lower(Suffix(f.path)) # <<".","p","d","f">>
  THEN ErrorOf(E_ValueError, <<"File must be a PDF: ">> \o f.path)
  ELSE NoError
\* ResumeParser._validate_input: the error it raises, if any
_validate_input(f) ==
  IF ~f.exists
  THEN ErrorOf(E_FileNotFoundError, <<"PDF file not found: ">> \o f.path)
  ELSE IF Lower(Suffix(f.path)) # <<".","p","d","f">>
  THEN ErrorOf(E_ValueError, <<"File must be a PDF: ">> \o f.path)
  ELSE IF f.st_size > MaxFileSizeMb * BytesPerMb
  THEN ErrorOf(E_ValueError,
               <<"File too large: ">> \o OneDecimal(TenthsOf(f.st_size)) \o <<"M","B"," ",">"," ">>
                 \o DecimalOf(MaxFileSizeMb) \o <<"M","B">>)
  ELSE NoError

\* the components parse calls, as it calls them
C_pdf_extractor == "pdf_extractor.extract_text"
C_clean == "text_cleaner.clean"
C_extract_sections == "text_cleaner.extract_sections"
C_entity_extractor == "entity_extractor.extract_entities"
\* how parse ends: with an error raised or a value returned, after these calls
RaisedBy(error, calls_) == [raised |-> TRUE, error |-> error, value |-> <<>>, calls |-> calls_]
Returned(value, calls_) == [raised |-> FALSE, error |-> NoError, value |-> value, calls |-> calls_]
M_parser_version == <<"p","a","r","s","e","r","_","v","e","r","s","i","o","n">>
M_sections_found == <<"s","e","c","t","i","o","n","s","_","f","o","u","n","d">>
\* lines 80-89 and 98: the result with its metadata (processing_time, a
\* clock reading, is not held), as the JSON text of _format_output
ResultOf(entities, metadata, sections_) ==
  [json |-> [resume_data |-> entities,
             metadata |-> metadata \o <<[k |-> M_parser_version, v |-> <<"1",".","0",".","0">>],
                                         [k |-> M_sections_found,
                                          v |-> [n \in 1..Len(sections_) |-> sections_[n].k]]>>]]
\* lines 73-101
ParseSections(cleaned_text, metadata, found) ==
  IF found.raised
  THEN RaisedBy(ErrorOf(E_re_error, <<"unbalanced parenthesis at position 25">>),
                <<C_pdf_extractor, C_clean, C_extract_sections>>)
  ELSE Returned(ResultOf(extract_entities(cleaned_text, found.sections), metadata, found.sections),
                <<C_pdf_extractor, C_clean, C_extract_sections, C_entity_extractor>>)
\* lines 71-73
ParseText(pdf_data_, cleaned_text) ==
  Apply(LAMBDA found : ParseSections(cleaned_text, pdf_data_.metadata, found),
        extract_sections(cleaned_text))
\* lines 56-71; the cache lookup of lines 59-63 returns None (line 148)
ParseData(pdf_data_) ==
  Apply(LAMBDA cleaned_text : ParseText(pdf_data_, cleaned_text), clean(pdf_data_.text))
ParseValid(f, error) ==
  IF error # NoError THEN RaisedBy(error, <<>>) ELSE Apply(ParseData, extract_text(f))
\* ResumeParser.parse, on the file the path names
parse(f) == ParseValid(f, _validate_input(f))

\* ResumeParser._get_cached_result, lines 145-148
_get_cached_result(path) == None
\* line 144, functools.lru_cache: the answers already given are kept by path
\* (fewer paths than maxsize are ever asked for)
Lookup(memo, path) == IF path \in Keys(memo) THEN Get(memo, path) ELSE _get_cached_result(path)
Remembered(memo, path) == IF path \in Keys(memo) THEN memo ELSE Put(memo, path, Lookup(memo, path))
\* ResumeParser._cache_result, lines 150-153: nothing is stored
_cache_result(memo, path, result) == memo
\* lines 59-63, enable_caching being True as configured: a call that passed
\* validation returns what the lookup gave if that is truthy
FromCache(f, memo) == _validate_input(f) = NoError /\ Truthy(Lookup(memo, f.path))
\* ResumeParser.parse with its cache steps: whether the cache answered, and how
\* the call ends
parse_cached(f, memo) ==
  IF FromCache(f, memo)
  THEN [cached |-> TRUE, validated |-> TRUE, out |-> Returned(Lookup(memo, f.path), <<>>)]
  ELSE [cached |-> FALSE, validated |-> _validate_input(f) = NoError, out |-> parse(f)]
\* the cache after the call: line 60 asks it, line 95 stores nothing
CacheAfter(f, memo, call) ==
  IF ~call.validated THEN memo
  ELSE IF call.cached \/ call.out.raised THEN Remembered(memo, f.path)
  ELSE _cache_result(Remembered(memo, f.path), f.path, call.out.value)

\* lines 114-119: one path tried; results and errors are dicts keyed by str(pdf_path)
Attempted(acc, path, out) ==
  IF out.raised THEN [acc EXCEPT !.errors = Put(@, path, out.error.message)]
  ELSE [acc EXCEPT !.results = Put(@, path, out.value)]
\* the failure of a document forgotten
Attempt_Forgetful(acc, path, f) == IF parse(f).raised THEN acc ELSE Attempted(acc, path, parse(f))
Attempt(acc, path, f) == Attempted(acc, path, parse(f))
\* lines 124-128
SummaryOf(pdf_paths_, results_, errors_) ==
  [total_files |-> Len(pdf_paths_), successful |-> Len(results_), failed |-> Len(errors_)]

-----------------------------------------------------------------------------
(* State.                                                                  *)

VARIABLES
  pc,               \* where the operation under way stands
  raw_text,         \* TextCleaner.clean: the text given
  cleaned,          \*   clean(raw_text)
  recleaned,        \*   clean(clean(raw_text))
  text,             \* extract_sections: the text given
  lines,            \*   text.split('\n')
  i,                \*   the loop index, from 0
  sections,         \*   the section map
  current_section,  \*   the name of the section being filled
  section_content,  \*   the buffered lines of that section
  scanned,          \*   history: the content lines buffered, each with its section
  closed,           \*   history: the sections closed with a buffer, each with its body
  experience_text,  \* _extract_experience: the text given
  job_sections,     \*   the blocks it is split into
  job,              \*   how many of them the loop has passed
  experience_list,  \*   the records made so far
  education_text,   \* _extract_education: the text given
  education_sections, \* the blocks it is split into
  block,            \*   how many of them the loop has passed
  education_list,   \*   the records made so far
  resume_words,     \* calculate_enhanced_ats_score: len(resume_text.split())
  jd_words,         \*   len(jd_text.split())
  similarity,       \*   the cosine of the two embeddings, in CosDen-ths
  resume_skills,    \*   extract_skills_and_keywords(resume_text)
  jd_skills,        \*   extract_skills_and_keywords(jd_text)
  threshold,        \* fuzzy_match_skills: the threshold given
  matched_skills,   \*   the set it returns
  skill_scores,     \*   the score map it returns
  scores,           \* calculate_enhanced_ats_score: the scores before rounding
  report,           \*   the report returned
  suggestions,      \* generate_improvement_suggestions: the list returned
  resume_data,      \* extract_entities: the ResumeData returned
  file,             \* ResumeParser.parse: the file pdf_path names
  outcome,          \*   the error raised or the value returned, and the calls made
  files,            \* parse_batch: the file each path names
  pdf_paths,        \*   the list given
  attempt,          \*   how many of its entries the loop has passed
  results,          \*   the results dict
  errors,           \*   the errors dict
  summary,          \*   the summary returned
  lru,              \* parse called repeatedly: what lru_cache holds for _get_cached_result
  served,           \*   history: how each call ended, in order
  line,             \* _is_section_header: the line given
  header,           \*   the section named, or the error raised
  context_lines,    \* _is_likely_resume_header: the lines after the line given
  likely,           \*   what it returns
  SKILL_SYNONYMS,   \* normalize_skill_terms: the synonym table
  wordnet_syns,     \*   get_wordnet_synonyms, by word
  skill_text,       \*   the text given
  term_to_canonical, \*  the reverse lookup built
  normalized        \*   the text returned

cleanVars == <<raw_text, cleaned, recleaned>>
segVars == <<text, lines, i, sections, current_section, section_content, scanned, closed>>
eduVars == <<education_text, education_sections, block, education_list>>
expVars == <<experience_text, job_sections, job, experience_list, eduVars>>
scoreVars == <<resume_words, jd_words, similarity, resume_skills, jd_skills, threshold,
               matched_skills, skill_scores, scores, report>>
adviceVars == <<suggestions>>
entityVars == <<resume_data>>
parseVars == <<file, outcome>>
batchVars == <<files, pdf_paths, attempt, results, errors, summary, lru, served>>
headerVars == <<line, header, context_lines, likely>>
normVars == <<SKILL_SYNONYMS, wordnet_syns, skill_text, term_to_canonical, normalized>>
restVars == <<headerVars, normVars>>
otherVars == <<adviceVars, entityVars, parseVars, batchVars, restVars>>
vars == <<pc, cleanVars, segVars, expVars, scoreVars, otherVars>>

CleanIdle == raw_text = <<>> /\ cleaned = <<>> /\ recleaned = <<>>
SegIdle == /\ text = <<>> /\ lines = <<>> /\ i = 0 /\ sections = <<>>
           /\ current_section = <<>> /\ section_content = <<>> /\ scanned = <<>> /\ closed = <<>>
EduIdle == /\ education_text = <<>> /\ education_sections = <<>> /\ block = 0
           /\ education_list = <<>>
ExpIdle == /\ experience_text = <<>> /\ job_sections = <<>> /\ job = 0
           /\ experience_list = <<>> /\ EduIdle
NoReport == <<>>
ScoreIdle == /\ resume_words = 0 /\ jd_words = 0 /\ similarity = 0
             /\ resume_skills = {} /\ jd_skills = {} /\ threshold = 0
             /\ matched_skills = {} /\ skill_scores = <<>>
             /\ scores = NoReport /\ report = NoReport
AdviceIdle == suggestions = <<>>
EntityIdle == resume_data = <<>>
ParseIdle == file = <<>> /\ outcome = <<>>
BatchIdle == /\ files = <<>> /\ pdf_paths = <<>> /\ attempt = 0
             /\ results = <<>> /\ errors = <<>> /\ summary = <<>>
             /\ lru = <<>> /\ served = <<>>
HeaderIdle == line = <<>> /\ header = <<>> /\ context_lines = <<>> /\ likely = FALSE
NormIdle == /\ SKILL_SYNONYMS = <<>> /\ wordnet_syns = <<>> /\ skill_text = <<>>
            /\ term_to_canonical = <<>> /\ normalized = <<>>
RestIdle == HeaderIdle /\ NormIdle
OtherIdle == AdviceIdle /\ EntityIdle /\ ParseIdle /\ BatchIdle /\ RestIdle

-----------------------------------------------------------------------------
(* The cleaner: clean(T), then clean of the result.                        *)

\* the characters and the longest text the cleaner is run on
CleanAlphabet == {"l", "a", "0", " ", ".", "-", "\n"}
MaxCleanLen == 4
RECURSIVE TextsUpTo(_, _)
TextsUpTo(alphabet, n) ==
  IF n = 0 THEN {<<>>}
  ELSE LET shorter == TextsUpTo(alphabet, n - 1)
       IN  shorter \cup {Append(t, c) : t \in shorter, c \in alphabet}
CleanSamples ==
  { <<"-","-","-"," ","P","A","G","E"," ","1"," ","-","-","-","a">>,
    <<"R","e","s","u","m","e"," ","o","f"," ","a","u2013","l">>,
    <<"C","u","r","r","i","c","u","l","u","m"," ","V","i","t","a","e","\n","1","\n","a","l","l","l">> }
CleanInputs == TextsUpTo(CleanAlphabet, MaxCleanLen) \cup CleanSamples

InitClean ==
  /\ pc = "start"
  /\ raw_text \in CleanInputs
  /\ cleaned = <<>> /\ recleaned = <<>>
  /\ SegIdle /\ ExpIdle /\ ScoreIdle /\ OtherIdle

Clean ==
  /\ pc = "start"
  /\ cleaned' = clean(raw_text)
  /\ pc' = "cleaned"
  /\ UNCHANGED <<raw_text, recleaned, segVars, expVars, scoreVars, otherVars>>

CleanAgain ==
  /\ pc = "cleaned"
  /\ recleaned' = clean(cleaned)
  /\ pc' = "recleaned"
  /\ UNCHANGED <<raw_text, cleaned, segVars, expVars, scoreVars, otherVars>>

NextClean == Clean \/ CleanAgain
SpecClean == InitClean /\ [][NextClean]_vars

-----------------------------------------------------------------------------
(* The segmenter.                                                          *)

L_SKILLS == <<"S","K","I","L","L","S">>
L_PythonSqlAws == <<"P","y","t","h","o","n",","," ","S","Q","L",","," ","A","W","S">>
L_python_sql == <<"p","y","t","h","o","n",","," ","s","q","l">>
L_abc == <<"a","b","c">>
L_SkillsGo == <<"S","k","i","l","l","s",":"," ","G","o">>
L_underline == <<"=","=","=">>
L_AB == <<"A","B">>
L_mail == <<"m","e"," ","a","@","b",".","c","o"," ","n","o","w">>
LinePool == {L_SKILLS, L_PythonSqlAws, L_python_sql, L_abc, L_SkillsGo, L_underline, L_AB,
             L_mail, <<>>}
\* the longest text of pool lines the segmenter is run on, and some longer ones
MaxLines == 2
SegSamples ==
  { <<L_SKILLS, L_python_sql, L_SkillsGo, L_abc>>,
    <<L_SkillsGo, L_underline, L_python_sql>>,
    <<L_mail, <<>>, L_SKILLS, L_PythonSqlAws>>,
    <<L_python_sql, L_python_sql, L_python_sql>>,
    <<L_SKILLS, L_abc, L_SKILLS, L_python_sql>>,
    <<L_SKILLS, L_python_sql, L_SKILLS, L_python_sql, L_abc>> }
RECURSIVE LineSeqs(_)
LineSeqs(n) ==
  IF n = 0 THEN {<<>>}
  ELSE LET shorter == LineSeqs(n - 1)
       IN  shorter \cup {Append(ls, l) : ls \in shorter, l \in LinePool}
SegInputs == {Join(ls, <<"\n">>) : ls \in LineSeqs(MaxLines) \cup SegSamples}

InitSeg ==
  /\ pc = "start"
  /\ text \in SegInputs
  /\ lines = <<>> /\ i = 0 /\ sections = <<>>
  /\ current_section = <<>> /\ section_content = <<>> /\ scanned = <<>> /\ closed = <<>>
  /\ CleanIdle /\ ExpIdle /\ ScoreIdle /\ OtherIdle

\* lines 288-289: the empty text
EmptyText ==
  /\ pc = "start" /\ Len(text) = 0
  /\ sections' = EmptySections
  /\ pc' = "done"
  /\ UNCHANGED <<text, lines, i, current_section, section_content, scanned, closed, cleanVars, expVars, scoreVars, otherVars>>

\* lines 291-301
StartScan ==
  /\ pc = "start" /\ Len(text) > 0
  /\ \E st \in {StartOf(text)} :
         /\ lines' = SplitOn(text, "\n")
         /\ sections' = st.sections
         /\ current_section' = st.current_section
         /\ section_content' = st.section_content
         /\ i' = st.i
         /\ pc' = IF st.raised THEN "raised" ELSE "scan"
  /\ UNCHANGED <<text, scanned, closed, cleanVars, expVars, scoreVars, otherVars>>

\* the history of closed sections, after the one given is closed with its buffer
Closing(history, section, buffer) ==
  IF Len(buffer) > 0
  THEN Append(history, [section |-> section, body |-> Strip(Join(buffer, <<"\n">>))])
  ELSE history
\* the step buffered the line as content (line 352)
Buffered(st, line_) ==
  /\ ~st.raised /\ Len(line_) > 0
  /\ st.current_section = current_section
  /\ st.section_content = Append(section_content, line_)
\* the step took the line as a header (lines 326-348)
Opened(st, line_) == ~st.raised /\ Len(line_) > 0 /\ ~Buffered(st, line_)

\* lines 302-355
ScanLine ==
  /\ pc = "scan" /\ i < Len(lines)
  /\ \E st \in {ScanLineOf(lines, ScanState(i, sections, current_section, section_content))} :
         /\ sections' = st.sections
         /\ current_section' = st.current_section
         /\ section_content' = st.section_content
         /\ i' = st.i
         /\ pc' = IF st.raised THEN "raised" ELSE "scan"
         /\ scanned' = IF Buffered(st, Strip(lines[i + 1]))
                       THEN Append(scanned, [section |-> current_section,
                                             line |-> Strip(lines[i + 1])])
                       ELSE scanned
         /\ closed' = IF Opened(st, Strip(lines[i + 1]))
                      THEN Closing(closed, current_section, section_content)
                      ELSE closed
  /\ UNCHANGED <<text, lines, cleanVars, expVars, scoreVars, otherVars>>

\* lines 357-373
FinishScan ==
  /\ pc = "scan" /\ i >= Len(lines)
  /\ sections' = FinishOf(text, ScanState(i, sections, current_section, section_content))
  /\ closed' = Closing(closed, current_section, section_content)
  /\ pc' = "done"
  /\ UNCHANGED <<text, lines, i, current_section, section_content, scanned, cleanVars, expVars, scoreVars, otherVars>>

NextSeg == EmptyText \/ StartScan \/ ScanLine \/ FinishScan
SpecSeg == InitSeg /\ [][NextSeg]_vars

\* line n of ls is taken as a header, by the tables or by the heuristic
HeaderAt(ls, n) ==
  /\ Len(Strip(ls[n])) > 0
  /\ \/ _is_section_header(Strip(ls[n])) # NoSection
     \/ _is_likely_resume_header(Strip(ls[n]), ContextLines(ls, n - 1))
NoHeaderLine(t) == \A n \in 1..Len(SplitOn(t, "\n")) : ~HeaderAt(SplitOn(t, "\n"), n)

\* C1: a non-empty text none of whose lines is recognised as a header comes
\* back as the map with the single key content, holding the stripped text.
C1_OnlyContent ==
  (pc = "done" /\ Len(text) > 0 /\ NoHeaderLine(text))
    => sections = <<[k |-> K_content, v |-> Strip(text)]>>

\* C2: the header line SKILLS followed by the line "Python, SQL, AWS" gives a
\* skills section whose body is that line.
C2_SkillsBody ==
  (pc = "done" /\ text = Join(<<L_SKILLS, L_PythonSqlAws>>, <<"\n">>))
    => (K_skills \in Keys(sections) /\ Get(sections, K_skills) = L_PythonSqlAws)

\* C3: cleaning a cleaned text changes nothing.
C3_CleanIdempotent == pc = "recleaned" => recleaned = cleaned

-----------------------------------------------------------------------------
(* The experience extractor.                                               *)

E_SeniorEngineer ==
  <<"S","e","n","i","o","r"," ","E","n","g","i","n","e","e","r"," ","|"," ",
    "A","c","m","e"," ","C","o","r","p"," ","|"," ","2","0","1","9","-","2","0","2","2">>
E_LedTheTeam == <<"L","e","d"," ","t","h","e"," ","t","e","a","m">>
E_TwoDates ==
  <<"D","e","v"," ","a","t"," ","A","c","m","e"," ","1","/","2","/","2","0","1","9"," ",
    "M","a","r"," ","2","0","2","0">>
E_NoSeparator ==
  <<"A","c","m","e"," ","L","a","b","s"," ","s","t","a","f","f"," ","e","n","g","i","n","e","e","r">>
E_ToPresent ==
  <<"L","e","a","d"," ","u2013"," ","B","e","t","a"," ","2","0","2","0"," ","-"," ",
    "n","o","w">>
ExperienceLines == {E_SeniorEngineer, E_LedTheTeam, E_TwoDates, E_NoSeparator, E_ToPresent}
\* the longest experience text, in lines
MaxJobLines == 2
RECURSIVE JobLineSeqs(_)
JobLineSeqs(n) ==
  IF n = 0 THEN {<<>>}
  ELSE LET shorter == JobLineSeqs(n - 1)
       IN  shorter \cup {Append(ls, l) : ls \in shorter, l \in ExperienceLines}
ExperienceTexts == {Join(ls, <<"\n">>) : ls \in JobLineSeqs(MaxJobLines)}

D_BsTwoDates ==
  <<"B","S"," ","P","h","y","s","i","c","s"," ","1","/","2","/","2","0","1","9"," ","M","a","r"," ","2","0","2","0">>
D_MasterTwoDates ==
  <<"M","a","s","t","e","r"," ","o","f"," ","A","r","t","s"," ","J","a","n"," ","2","0","1","8"," ","F","e","b"," ","2","0","1","9">>
D_MitRange ==
  <<"M","I","T"," ","2","0","1","5","-","2","0","1","9"," ","G","P","A",":"," ","3",".","9">>
D_Mba ==
  <<"M","B","A"," ","2","0","2","0">>
D_Honours ==
  <<" ","w","i","t","h"," ","h","o","n","o","u","r","s",","," ","2","0","2","1">>
D_StateCollege ==
  <<"S","t","a","t","e"," ","C","o","l","l","e","g","e"," ","e","v","e","n","i","n","g"," ","c","l","a","s","s","e","s">>
EducationLines ==
  {D_BsTwoDates, D_MasterTwoDates, D_MitRange, D_Mba, D_Honours, D_StateCollege}
\* the longest education text, in lines
MaxEducationLines == 2
RECURSIVE EducationLineSeqs(_)
EducationLineSeqs(n) ==
  IF n = 0 THEN {<<>>}
  ELSE LET shorter == EducationLineSeqs(n - 1)
       IN  shorter \cup {Append(ls, l) : ls \in shorter, l \in EducationLines}
EducationTexts == {Join(ls, <<"\n">>) : ls \in EducationLineSeqs(MaxEducationLines)}

\* extract_entities calls _extract_experience and _extract_education, each on
\* its own section text
InitExp ==
  /\ \/ pc = "start" /\ experience_text \in ExperienceTexts /\ education_text = <<>>
     \/ pc = "education" /\ experience_text = <<>> /\ education_text \in EducationTexts
  /\ job_sections = <<>> /\ job = 0 /\ experience_list = <<>>
  /\ education_sections = <<>> /\ block = 0 /\ education_list = <<>>
  /\ CleanIdle /\ SegIdle /\ ScoreIdle /\ OtherIdle

\* lines 172-173
NoExperience ==
  /\ pc = "start" /\ Len(experience_text) = 0
  /\ pc' = "done"
  /\ UNCHANGED <<cleanVars, segVars, expVars, scoreVars, otherVars>>

\* line 176
SplitJobs ==
  /\ pc = "start" /\ Len(experience_text) > 0
  /\ job_sections' = ReSplit(JobSplitRe, experience_text)
  /\ pc' = "jobs"
  /\ UNCHANGED <<experience_text, job, experience_list, eduVars, cleanVars, segVars,
               scoreVars, otherVars>>

\* lines 179-180
SkipShortJob ==
  /\ pc = "jobs" /\ job < Len(job_sections)
  /\ Len(Strip(job_sections[job + 1])) < MinJobLength
  /\ job' = job + 1
  /\ UNCHANGED <<pc, experience_text, job_sections, experience_list, eduVars, cleanVars,
               segVars, scoreVars, otherVars>>

\* lines 182-199 and 211-224: the first line splits into position and company
ParseJob ==
  /\ pc = "jobs" /\ job < Len(job_sections)
  /\ Len(Strip(job_sections[job + 1])) >= MinJobLength
  /\ \E m \in {ReSearch(PositionCompanyRe, Strip(FirstLine(job_sections[job + 1])))} :
       /\ m.ok
       /\ experience_list' =
            Completed(experience_list,
                      WithPositionCompany(NewExperience,
                                          Strip(FirstLine(job_sections[job + 1])), m),
                      job_sections[job + 1])
  /\ job' = job + 1
  /\ UNCHANGED <<pc, experience_text, job_sections, eduVars, cleanVars, segVars,
               scoreVars, otherVars>>

\* lines 182-194 and 200-224: it does not, and the language model is asked
ParseJobByNer ==
  /\ pc = "jobs" /\ job < Len(job_sections)
  /\ Len(Strip(job_sections[job + 1])) >= MinJobLength
  /\ ~ReSearch(PositionCompanyRe, Strip(FirstLine(job_sections[job + 1]))).ok
  /\ \E org \in OrgSpans(FirstLine(job_sections[job + 1])) \cup {None} :
       experience_list' =
         Completed(experience_list,
                   WithOrg(NewExperience, FirstLine(job_sections[job + 1]), org),
                   job_sections[job + 1])
  /\ job' = job + 1
  /\ UNCHANGED <<pc, experience_text, job_sections, eduVars, cleanVars, segVars,
               scoreVars, otherVars>>

\* line 226
ReturnJobs ==
  /\ pc = "jobs" /\ job = Len(job_sections)
  /\ pc' = "done"
  /\ UNCHANGED <<cleanVars, segVars, expVars, scoreVars, otherVars>>

\* _extract_education lines 126-127
NoEducation ==
  /\ pc = "education" /\ Len(education_text) = 0
  /\ pc' = "educated"
  /\ UNCHANGED <<cleanVars, segVars, expVars, scoreVars, otherVars>>

\* line 131
SplitEducation ==
  /\ pc = "education" /\ Len(education_text) > 0
  /\ education_sections' = ReSplit(BlockSplitRe, education_text)
  /\ pc' = "blocks"
  /\ UNCHANGED <<education_text, block, education_list, experience_text, job_sections, job,
                 experience_list, cleanVars, segVars, scoreVars, otherVars>>

\* lines 134-135
SkipShortBlock ==
  /\ pc = "blocks" /\ block < Len(education_sections)
  /\ Len(Strip(education_sections[block + 1])) < MinBlockLength
  /\ block' = block + 1
  /\ UNCHANGED <<pc, education_text, education_sections, education_list, experience_text,
                 job_sections, job, experience_list, cleanVars, segVars, scoreVars, otherVars>>

\* lines 137-163
ParseBlock ==
  /\ pc = "blocks" /\ block < Len(education_sections)
  /\ Len(Strip(education_sections[block + 1])) >= MinBlockLength
  /\ \E org \in OrgSpans(FirstLine(education_sections[block + 1])) \cup {None} :
       education_list' = EducationOf(education_list, education_sections[block + 1], org)
  /\ block' = block + 1
  /\ UNCHANGED <<pc, education_text, education_sections, experience_text, job_sections, job,
                 experience_list, cleanVars, segVars, scoreVars, otherVars>>

\* line 165
ReturnEducation ==
  /\ pc = "blocks" /\ block = Len(education_sections)
  /\ pc' = "educated"
  /\ UNCHANGED <<cleanVars, segVars, expVars, scoreVars, otherVars>>

NextExp ==
  \/ NoExperience \/ SplitJobs \/ SkipShortJob \/ ParseJob \/ ParseJobByNer \/ ReturnJobs
  \/ NoEducation \/ SplitEducation \/ SkipShortBlock \/ ParseBlock \/ ReturnEducation
SpecExp == InitExp /\ [][NextExp]_vars

\* C4: the block whose first line is "Senior Engineer | Acme Corp | 2019-2022"
\* gives a record with that position and company, start_date "2019" and
\* end_date "2022".
C4_YearRangeSplit ==
  (pc = "done" /\ experience_text = E_SeniorEngineer)
    => /\ Len(experience_list) = 1
       /\ experience_list[1].position = SubSeq(E_SeniorEngineer, 1, 15)
       /\ experience_list[1].company = SubSeq(E_SeniorEngineer, 19, 27)
       /\ experience_list[1].start_date = SubSeq(E_SeniorEngineer, 31, 34)
       /\ experience_list[1].end_date = SubSeq(E_SeniorEngineer, 36, 39)

-----------------------------------------------------------------------------
(* fuzzy_match_skills on its own, at any threshold.                        *)

Thresholds == {50, 85, 93, 100}

InitFuzzy ==
  /\ pc = "start"
  /\ resume_skills \in SUBSET SkillUniverse
  /\ jd_skills \in SUBSET SkillUniverse
  /\ threshold \in Thresholds
  /\ matched_skills = {} /\ skill_scores = <<>>
  /\ resume_words = 0 /\ jd_words = 0 /\ similarity = 0
  /\ scores = NoReport /\ report = NoReport
  /\ CleanIdle /\ SegIdle /\ ExpIdle /\ OtherIdle

\* lines 111-128
FuzzyMatch ==
  /\ pc = "start"
  /\ \E fm \in {fuzzy_match_skills(resume_skills, jd_skills, threshold)} :
       /\ matched_skills' = fm.matched_skills
       /\ skill_scores' = fm.skill_scores
  /\ pc' = "done"
  /\ UNCHANGED <<resume_words, jd_words, similarity, resume_skills, jd_skills, threshold,
                 scores, report, cleanVars, segVars, expVars, otherVars>>

NextFuzzy == FuzzyMatch
SpecFuzzy == InitFuzzy /\ [][NextFuzzy]_vars

\* C5: the matched set lies within the job's skills, the score map has
\* exactly the matched skills as keys, and each score reaches the threshold.
C5_MatchedWithinJob ==
  pc = "done"
    => /\ matched_skills \subseteq jd_skills
       /\ DOMAIN skill_scores = matched_skills
       /\ \A j \in matched_skills : Geq(skill_scores[j], Frac(threshold, 1))
\* a job skill is matched by a resume skill that is not equal to it, another is not matched
C5_FuzzyMatchFound ==
  /\ pc = "done"
  /\ \E j \in matched_skills : j \notin resume_skills
  /\ jd_skills \ matched_skills # {}


-----------------------------------------------------------------------------
(* calculate_enhanced_ats_score.  The two texts are given by what the code *)
(* takes from them: their word counts, the cosine the embedding model      *)
(* returns for them and the keyword sets the language model extracts.      *)

\* word counts are multiples of WordStep, up to these numbers of steps; the
\* job text may also have half a step of words
WordStep == 100
MaxResumeSteps == 3
MaxJdSteps == 2

InitScore ==
  /\ pc = "start"
  /\ resume_words \in {WordStep * n : n \in 0..MaxResumeSteps}
  /\ jd_words \in {WordStep * n : n \in 0..MaxJdSteps} \cup {WordStep \div 2}
  /\ similarity = 0 /\ resume_skills = {} /\ jd_skills = {}
  /\ threshold = MatchThreshold /\ matched_skills = {} /\ skill_scores = <<>>
  /\ scores = NoReport /\ report = NoReport
  /\ CleanIdle /\ SegIdle /\ ExpIdle /\ OtherIdle

\* lines 134-136: any cosine from -1 to 1; two texts without words are
\* encoded alike, and their cosine is 1
Encode ==
  /\ pc = "start"
  /\ similarity' \in (IF resume_words = 0 /\ jd_words = 0 THEN {CosDen}
                       ELSE (-CosDen)..CosDen)
  /\ pc' = "encoded"
  /\ UNCHANGED <<resume_words, jd_words, resume_skills, jd_skills, threshold,
                 matched_skills, skill_scores, scores, report, cleanVars, segVars, expVars, otherVars>>

\* lines 139-140: a text without words has no keywords
ExtractSkills ==
  /\ pc = "encoded"
  /\ resume_skills' \in (IF resume_words = 0 THEN {{}} ELSE SUBSET SkillUniverse)
  /\ jd_skills' \in (IF jd_words = 0 THEN {{}} ELSE SUBSET SkillUniverse)
  /\ pc' = "extracted"
  /\ UNCHANGED <<resume_words, jd_words, similarity, threshold,
                 matched_skills, skill_scores, scores, report, cleanVars, segVars, expVars, otherVars>>

\* lines 142-188
Report ==
  /\ pc = "extracted"
  /\ \E fm \in {fuzzy_match_skills(resume_skills, jd_skills, threshold)} :
       /\ matched_skills' = fm.matched_skills
       /\ skill_scores' = fm.skill_scores
       /\ \E sc \in {ScoresOf(similarity, resume_words, jd_words, resume_skills, jd_skills,
                              fm.matched_skills)} :
            /\ scores' = sc
            /\ report' = ReportOf(sc, resume_skills, jd_skills, fm)
  /\ pc' = "done"
  /\ UNCHANGED <<resume_words, jd_words, similarity, resume_skills, jd_skills, threshold,
                 cleanVars, segVars, expVars, otherVars>>

NextScore == Encode \/ ExtractSkills \/ Report
SpecScore == InitScore /\ [][NextScore]_vars

\* within 0 and 100, in hundredths
InRange(x) == 0 <= x /\ x <= 10000
\* the weighted sum of the four scores of the report, each in hundredths
FromReported ==
  Frac(SemanticWeight * report.semantic_score + SkillWeight * report.skill_match_score
         + CriticalWeight * report.critical_match_score + LengthWeight * report.length_score,
       10000)

\* C6: the matched and the missing skills partition the job's skills,
\* total_jd_skills counts them, and skill_match_score is 100 * |matched| / |J|
\* rounded to 2 decimals; job skills {python, sql, aws} against resume skills
\* {python, sql} give matched {python, sql}, missing {aws} and 66.67.
C6_Partition ==
  pc = "done"
    => /\ report.matched_skills \cup report.missing_skills = jd_skills
       /\ report.matched_skills \cap report.missing_skills = {}
       /\ report.total_jd_skills = Cardinality(jd_skills)
       /\ jd_skills # {}
            => report.skill_match_score
                 = Round2(Frac(100 * Cardinality(report.matched_skills), Cardinality(jd_skills)))
       /\ (jd_skills = {S_python, S_sql, S_aws} /\ resume_skills = {S_python, S_sql})
            => /\ report.matched_skills = {S_python, S_sql}
               /\ report.missing_skills = {S_aws}
               /\ report.skill_match_score = 6667
C6_TwoOfThree ==
  /\ pc = "done"
  /\ jd_skills = {S_python, S_sql, S_aws} /\ resume_skills = {S_python, S_sql}
  /\ report.skill_match_score = 6667

\* C7: the skill, critical and length scores of the report lie in [0, 100],
\* also for empty texts.
C7_ComponentRange ==
  pc = "done"
    => /\ InRange(report.skill_match_score)
       /\ InRange(report.critical_match_score)
       /\ InRange(report.length_score)
\* both texts empty
C7_EmptyTexts ==
  /\ pc = "done" /\ resume_words = 0 /\ jd_words = 0
  /\ report.skill_match_score = 0
  /\ report.critical_match_score = 10000
  /\ report.length_score = 5000

\* C8: the semantic score of the report lies in [0, 100] for every cosine
\* from -1 to 1.
C8_SemanticRange == pc = "done" => InRange(report.semantic_score)

\* C9: the final score of the report lies in [0, 100] for every input and
\* every cosine from -1 to 1.
C9_FinalRange == pc = "done" => InRange(report.final_score)

\* C10, as stated: the final score is the weighted sum of the four scores of
\* the same report, rounded to 2 decimals.
C10_FinalFromReported ==
  pc = "done" => report.final_score = Round2(FromReported)
\* C10, amended: the weights sum to 1, the final score is the weighted sum of
\* the four scores before they are rounded, rounded to 2 decimals, and it is
\* within 0.01 of the weighted sum of the four scores of the report.
C10_FinalFromUnrounded ==
  pc = "done"
    => /\ SemanticWeight + SkillWeight + CriticalWeight + LengthWeight = 100
       /\ report.final_score
            = Round2(FinalOf(scores.semantic_score, scores.skill_match_score,
                             scores.critical_match_score, scores.length_score))
       /\ report.final_score - Round2(FromReported) \in {-1, 0, 1}
\* a report whose final score is not the rounded sum of its rounded scores
C10_RoundedTwice ==
  /\ pc = "done"
  /\ report.final_score # Round2(FromReported)

\* C11: no score divides by zero; without job skills the skill score is 0;
\* without a critical job skill the critical score is 100, whatever the
\* resume holds; under 100 job words the length ratio is taken over 100.
C11_DegenerateGuards ==
  pc = "done"
    => /\ \A f \in {"semantic_score", "skill_match_score", "critical_match_score",
                    "length_score", "final_score"} : scores[f].d > 0
       /\ jd_skills = {} => report.skill_match_score = 0
       /\ jd_skills \cap critical_skills = {} => report.critical_match_score = 10000
       /\ jd_words < 100
            => report.length_score
                 = 10000 - 50 * (IF resume_words >= 200 THEN 100
                                 ELSE IF resume_words >= 100 THEN resume_words - 100
                                 ELSE 100 - resume_words)
\* a short job text with skills none of which is critical, a resume with critical skills
C11_NoCriticalAsked ==
  /\ pc = "done"
  /\ 0 < jd_words /\ jd_words < 100 /\ resume_words = 100
  /\ jd_skills # {} /\ jd_skills \cap critical_skills = {}
  /\ resume_skills \cap critical_skills # {}
  /\ report.critical_match_score = 10000 /\ report.length_score = 10000

-----------------------------------------------------------------------------
(* generate_improvement_suggestions, applied to a report.                  *)

\* the scores a report is drawn from, in hundredths, and the skills missing
FinalGrid == {0, 4000, 6999, 7000, 8499, 8500, 10000}
SemanticGrid == {-1429, 6999, 7000, 10000}
CriticalGrid == {0, 7999, 8000, 10000}
MissingUniverse == {S_python, S_python3, S_sql, S_aws, S_java, S_javascript}
\* a final score that some skill score in [0, 100] and some length score in
\* [50, 100] give with the two other scores, up to the rounding of each
Attainable(r) ==
  LET fixed == SemanticWeight * r.semantic_score + CriticalWeight * r.critical_match_score
  IN  /\ 100 * r.final_score >= fixed + LengthWeight * 5000 - 100
      /\ 100 * r.final_score <= fixed + SkillWeight * 10000 + LengthWeight * 10000 + 100
AdviceInputs ==
  {r \in [final_score : FinalGrid, semantic_score : SemanticGrid,
          critical_match_score : CriticalGrid, missing_skills : SUBSET MissingUniverse] :
     Attainable(r)}

InitAdvice ==
  /\ pc = "start"
  /\ report \in AdviceInputs
  /\ suggestions = <<>> /\ EntityIdle /\ ParseIdle /\ BatchIdle /\ RestIdle
  /\ resume_words = 0 /\ jd_words = 0 /\ similarity = 0
  /\ resume_skills = {} /\ jd_skills = {} /\ threshold = 0
  /\ matched_skills = {} /\ skill_scores = <<>> /\ scores = NoReport
  /\ CleanIdle /\ SegIdle /\ ExpIdle

Suggest ==
  /\ pc = "start"
  /\ suggestions' = generate_improvement_suggestions(report)
  /\ pc' = "advised"
  /\ UNCHANGED <<cleanVars, segVars, expVars, scoreVars, entityVars, parseVars, batchVars, restVars>>

NextAdvice == Suggest
SpecAdvice == InitAdvice /\ [][NextAdvice]_vars

\* where the suggestion of the given fixed text stands in the list
PlacesOf(fixed) ==
  {n \in 1..Len(suggestions) : Take(suggestions[n], 1) = fixed}
\* the skills named after the fixed text of the missing-skills suggestion
NamedIn(said) == [n \in 1..Len(SplitOn(Tail(said), ",")) |-> Strip(SplitOn(Tail(said), ",")[n])]

\* C12: the list holds, in this order, one verdict chosen by final_score
\* (below 70, from 70 to below 85, from 85), the missing-skills line iff
\* skills are missing, naming the first 5 at most in sorted order, the
\* alignment line iff semantic_score < 70 and the critical-skills line iff
\* critical_match_score < 80: from 1 to 4 entries.
C12_SuggestionList ==
  pc = "advised"
    => /\ Len(suggestions) \in 1..4
       /\ suggestions[1] = (IF report.final_score < 7000 THEN L_Critical
                            ELSE IF report.final_score < 8500 THEN L_Moderate
                            ELSE L_Good)
       /\ \A n \in 2..Len(suggestions) : suggestions[n] \notin {L_Critical, L_Moderate, L_Good}
       /\ Cardinality(PlacesOf(L_AddMissing)) = (IF report.missing_skills # {} THEN 1 ELSE 0)
       /\ Cardinality(PlacesOf(L_ImproveContent))
            = (IF report.semantic_score < 7000 THEN 1 ELSE 0)
       /\ Cardinality(PlacesOf(L_HighlightCritical))
            = (IF report.critical_match_score < 8000 THEN 1 ELSE 0)
       /\ \A a \in PlacesOf(L_AddMissing), b \in PlacesOf(L_ImproveContent) : a < b
       /\ \A a \in PlacesOf(L_AddMissing) \cup PlacesOf(L_ImproveContent),
             b \in PlacesOf(L_HighlightCritical) : a < b
       /\ \A n \in PlacesOf(L_AddMissing) :
            \E named \in {NamedIn(suggestions[n])} :
              /\ Len(named) = Min({5, Cardinality(report.missing_skills)})
              /\ \A a \in 1..Len(named) : named[a] \in report.missing_skills
              /\ \A a \in 1..Len(named), b \in 1..Len(named) :
                   a < b => Before(named[a], named[b])
              /\ \A x \in report.missing_skills :
                   (\A a \in 1..Len(named) : named[a] # x)
                     => \A a \in 1..Len(named) : Before(named[a], x)
\* six skills missing and all four suggestions made
C12_SixMissing ==
  /\ pc = "advised"
  /\ Cardinality(report.missing_skills) = 6
  /\ Len(suggestions) = 4
  /\ report.final_score >= 7000 /\ report.final_score < 8500

\* C16: the empty text comes back as the map with the single key other
\* holding the empty string, and no content, header, name or contact_info key.
C16_EmptyText ==
  (pc = "done" /\ Len(text) = 0)
    => /\ Len(sections) = 1
       /\ sections[1].k = K_other /\ sections[1].v = <<>>
       /\ \A n \in 1..Len(sections) :
            sections[n].k \notin {K_content, K_header, K_name, K_contact_info}
\* the segmenter has returned for the empty text
C16_EmptyTextDone == pc = "done" /\ Len(text) = 0 /\ Len(sections) > 0

-----------------------------------------------------------------------------
(* EntityExtractor.extract_entities, given a text and a section map.      *)

T_AwsCertified == <<"A","W","S"," ","C","e","r","t","i","f","i","e","d"," ","D","e","v","e","l","o","p","e","r">>
T_GoGo == <<"G","o",","," ","G","o">>
T_EnglishFrench == <<"E","n","g","l","i","s","h",","," ","F","r","e","n","c","h">>
T_Pmp == <<"P","M","P">>
T_AzureLicense == <<"A","z","u","r","e"," ","l","i","c","e","n","s","e">>
EntityLines == {T_AwsCertified, T_GoGo, T_EnglishFrench, T_Pmp, T_AzureLicense}
\* the longest text, in lines
MaxEntityLines == 2
RECURSIVE EntityLineSeqs(_)
EntityLineSeqs(n) ==
  IF n = 0 THEN {<<>>}
  ELSE LET shorter == EntityLineSeqs(n - 1)
       IN  shorter \cup {Append(ls, l) : ls \in shorter, l \in EntityLines}
EntityTexts == {Join(ls, <<"\n">>) : ls \in EntityLineSeqs(MaxEntityLines)}
\* the bodies of a skills section
SkillsTexts == {<<>>, <<"P","y","t","h","o","n",","," ","p","y","t","h","o","n","3">>, <<"G","o","\n","G","o">>, <<"V","u","e",".","j","s",","," ","j","s">>}
\* the section maps: the text under content, a skills section or none, a
\* summary or none
SectionMaps(t) ==
  {<<[k |-> K_content, v |-> t]>> \o with_skills \o with_summary :
     with_skills \in {<<>>} \cup {<<[k |-> K_skills, v |-> b]>> : b \in SkillsTexts},
     with_summary \in {<<>>, <<[k |-> K_summary, v |-> T_Pmp]>>}}
\* the orders a list made from a set may have: the list, rearranged
Orders(list) ==
  {[n \in DOMAIN list |-> list[q[n]]] :
     q \in {q \in [DOMAIN list -> DOMAIN list] : \A a, b \in DOMAIN list : q[a] = q[b] => a = b}}

InitEntities ==
  /\ pc = "start"
  /\ text \in EntityTexts
  /\ sections \in SectionMaps(text)
  /\ resume_data = <<>>
  /\ lines = <<>> /\ i = 0 /\ current_section = <<>> /\ section_content = <<>> /\ scanned = <<>> /\ closed = <<>>
  /\ CleanIdle /\ ExpIdle /\ ScoreIdle /\ AdviceIdle /\ ParseIdle /\ BatchIdle /\ RestIdle

\* lines 51-81; the skills come out of a set in any order
ExtractEntities ==
  /\ pc = "start"
  /\ \E found \in {extract_entities(text, sections)} :
       \E order \in Orders(found.skills) : resume_data' = [found EXCEPT !.skills = order]
  /\ pc' = "entities"
  /\ UNCHANGED <<segVars, cleanVars, expVars, scoreVars, adviceVars, parseVars, batchVars, restVars>>

NextEntities == ExtractEntities
SpecEntities == InitEntities /\ [][NextEntities]_vars

\* no entry of the list occurs twice
NoDuplicate(list) == \A a \in 1..Len(list), b \in 1..Len(list) : list[a] = list[b] => a = b

\* C17: skills, certifications and languages of the ResumeData returned each
\* hold no entry twice, whatever the text.
C17_NoDuplicates ==
  pc = "entities"
    => /\ NoDuplicate(resume_data.skills)
       /\ NoDuplicate(resume_data.certifications)
       /\ NoDuplicate(resume_data.languages)

-----------------------------------------------------------------------------
(* ResumeParser.parse on one file.                                         *)

P_a_pdf == <<"a",".","p","d","f">>
P_b_PDF == <<"b",".","P","D","F">>
P_notes_txt == <<"n","o","t","e","s",".","t","x","t">>
P_cv == <<"c","v">>
Paths == {P_a_pdf, P_b_PDF, P_notes_txt, P_cv}
G_python_sql == <<"p","y","t","h","o","n",","," ","s","q","l">>
G_JOHN_DOE == <<"J","O","H","N"," ","D","O","E">>
G_AzureLicense == <<"A","z","u","r","e"," ","l","i","c","e","n","s","e">>
\* what the two back-ends read and the metadata: nothing readable, one page
\* of text, a page only pdfplumber reads, a heading in capitals, no page,
\* a page read differently by the two
Contents ==
  { [fitz |-> Unreadable, plumber |-> Unreadable, meta |-> <<>>],
    [fitz |-> <<G_python_sql>>, plumber |-> <<G_python_sql>>,
     meta |-> <<[k |-> M_title, v |-> P_cv]>>],
    [fitz |-> Unreadable, plumber |-> <<G_AzureLicense>>, meta |-> <<>>],
    [fitz |-> <<G_JOHN_DOE>>, plumber |-> Unreadable, meta |-> <<>>],
    [fitz |-> <<>>, plumber |-> <<>>, meta |-> <<>>],
    [fitz |-> <<G_python_sql>>, plumber |-> <<G_python_sql \o <<"\n">> \o G_AzureLicense>>,
     meta |-> <<>>] }
\* sizes in bytes: small, the largest allowed, one byte more
Sizes == {12, MaxFileSizeMb * BytesPerMb, MaxFileSizeMb * BytesPerMb + 1}
FileOf(path, exists, st_size, content) ==
  [path |-> path, exists |-> exists, st_size |-> st_size,
   fitz |-> content.fitz, plumber |-> content.plumber, meta |-> content.meta]
Missing(path) == FileOf(path, FALSE, 0, [fitz |-> Unreadable, plumber |-> Unreadable, meta |-> <<>>])
FilesAt(path) ==
  {Missing(path)} \cup {FileOf(path, TRUE, size, content) : size \in Sizes, content \in Contents}

InitParse ==
  /\ pc = "start"
  /\ file \in UNION {FilesAt(path) : path \in Paths}
  /\ outcome = <<>>
  /\ CleanIdle /\ SegIdle /\ ExpIdle /\ ScoreIdle /\ AdviceIdle /\ EntityIdle /\ BatchIdle /\ RestIdle

\* lines 41-105
Parse ==
  /\ pc = "start"
  /\ outcome' = parse(file)
  /\ pc' = "parsed"
  /\ UNCHANGED <<file, cleanVars, segVars, expVars, scoreVars, adviceVars, entityVars, batchVars, restVars>>

NextParse == Parse
SpecParse == InitParse /\ [][NextParse]_vars

\* the path ends in .pdf, in any case of the letters
NamedPdf(f) ==
  /\ Len(f.path) > 4
  /\ SubSeq(Lower(f.path), Len(f.path) - 3, Len(f.path)) = <<".","p","d","f">>
\* the error raised is of this type and no component was called
RejectedAs(type) == outcome.raised /\ outcome.error.type = type /\ outcome.calls = <<>>

\* C15: a path that names no file raises FileNotFoundError, whatever its
\* extension; an existing file not named .pdf raises ValueError; an existing
\* .pdf above the size limit raises ValueError; in each case no extractor,
\* cleaner or entity extractor is called.
C15_RejectedBeforeExtraction ==
  pc = "parsed"
    => /\ ~file.exists => RejectedAs(E_FileNotFoundError)
       /\ (file.exists /\ ~NamedPdf(file)) => RejectedAs(E_ValueError)
       /\ (file.exists /\ NamedPdf(file) /\ file.st_size > 10 * 1024 * 1024)
            => RejectedAs(E_ValueError)
\* an existing .PDF one byte above the limit has been rejected
C15_TooLargeRejected ==
  /\ pc = "parsed"
  /\ file.exists /\ file.path = P_b_PDF /\ file.st_size = 10 * 1024 * 1024 + 1
  /\ outcome.raised /\ outcome.calls = <<>>

\* C19: an existing .pdf of allowed size that neither back-end can read makes
\* parse fail with an error.
C19_UnreadableFails ==
  (/\ pc = "parsed"
   /\ file.exists /\ NamedPdf(file) /\ file.st_size <= 10 * 1024 * 1024
   /\ file.fitz = Unreadable /\ file.plumber = Unreadable)
    => outcome.raised

-----------------------------------------------------------------------------
(* ResumeParser.parse_batch on a list of paths.                            *)

\* the longest list
MaxBatch == 3
RECURSIVE PathLists(_)
PathLists(n) ==
  IF n = 0 THEN {<<>>}
  ELSE LET shorter == PathLists(n - 1)
       IN  shorter \cup {Append(l, path) : l \in shorter, path \in Paths}
\* the files the paths name while the batch runs
FileSystems ==
  { [path \in Paths |->
       IF path = P_a_pdf
       THEN FileOf(path, TRUE, 12, [fitz |-> <<G_python_sql>>, plumber |-> <<G_python_sql>>,
                                    meta |-> <<>>])
       ELSE IF path = P_b_PDF
       THEN FileOf(path, TRUE, 12, [fitz |-> <<G_JOHN_DOE>>, plumber |-> Unreadable, meta |-> <<>>])
       ELSE IF path = P_notes_txt THEN FileOf(path, TRUE, 12, [fitz |-> Unreadable,
                                                              plumber |-> Unreadable, meta |-> <<>>])
       ELSE Missing(path)],
    [path \in Paths |->
       IF path = P_b_PDF
       THEN FileOf(path, TRUE, 12, [fitz |-> <<G_AzureLicense>>, plumber |-> Unreadable,
                                    meta |-> <<>>])
       ELSE Missing(path)] }

InitBatch ==
  /\ pc = "start"
  /\ files \in FileSystems
  /\ pdf_paths \in PathLists(MaxBatch)
  /\ attempt = 0 /\ results = <<>> /\ errors = <<>> /\ summary = <<>>
  /\ lru = <<>> /\ served = <<>>
  /\ CleanIdle /\ SegIdle /\ ExpIdle /\ ScoreIdle /\ AdviceIdle /\ EntityIdle /\ ParseIdle
  /\ RestIdle

\* lines 114-119: one iteration of the loop
ParseNext ==
  /\ pc = "start" /\ attempt < Len(pdf_paths)
  /\ \E acc \in {Attempt([results |-> results, errors |-> errors],
                         pdf_paths[attempt + 1], files[pdf_paths[attempt + 1]])} :
       results' = acc.results /\ errors' = acc.errors
  /\ attempt' = attempt + 1
  /\ UNCHANGED <<pc, files, pdf_paths, summary, lru, served, cleanVars, segVars, expVars, scoreVars,
                 adviceVars, entityVars, parseVars, restVars>>

\* lines 121-129
ReturnBatch ==
  /\ pc = "start" /\ attempt >= Len(pdf_paths)
  /\ summary' = SummaryOf(pdf_paths, results, errors)
  /\ pc' = "returned"
  /\ UNCHANGED <<files, pdf_paths, attempt, results, errors, lru, served, cleanVars, segVars,
                 expVars, scoreVars, adviceVars, entityVars, parseVars, restVars>>

NextBatch == ParseNext \/ ReturnBatch
SpecBatch == InitBatch /\ [][NextBatch]_vars

\* the entry of the list is filed where its parse ends: under errors with the
\* error text, or under results with the value
Filed(path, out) ==
  IF out.raised THEN path \in Keys(errors) /\ Get(errors, path) = out.error.message
  ELSE path \in Keys(results) /\ Get(results, path) = out.value

\* C13: the batch returns whatever fails: every entry is tried, a failing
\* path is in errors under its own name with the error text, a succeeding
\* one in results, and every path of the list is a key of one of the two.
C13_EveryPathFiled ==
  pc = "returned"
    => /\ attempt = Len(pdf_paths)
       /\ \A n \in 1..Len(pdf_paths) :
            /\ Filed(pdf_paths[n], parse(files[pdf_paths[n]]))
            /\ pdf_paths[n] \in Keys(results) \cup Keys(errors)
       /\ Keys(results) \cup Keys(errors) \subseteq Range(pdf_paths)
\* a failing path first, and a succeeding one after it
C13_FailureThenSuccess ==
  /\ pc = "returned"
  /\ Len(pdf_paths) = 3
  /\ pdf_paths[1] \in Keys(errors) /\ pdf_paths[2] \in Keys(errors)
  /\ pdf_paths[3] \in Keys(results)

\* C14: total_files is the number of entries of the list and successful plus
\* failed equals it, also when a path is named more than once; all three are
\* 0 for the empty list.
C14_SummaryAddsUp ==
  pc = "returned"
    => /\ summary.total_files = Len(pdf_paths)
       /\ summary.successful + summary.failed = summary.total_files
       /\ Len(pdf_paths) = 0
            => summary.total_files = 0 /\ summary.successful = 0 /\ summary.failed = 0

-----------------------------------------------------------------------------
(* ResumeParser.parse called again and again on one parser.                *)

\* the most calls
MaxCalls == 3

InitCache ==
  /\ pc = "start"
  /\ files \in FileSystems
  /\ lru = <<>> /\ served = <<>>
  /\ pdf_paths = <<>> /\ attempt = 0 /\ results = <<>> /\ errors = <<>> /\ summary = <<>>
  /\ CleanIdle /\ SegIdle /\ ExpIdle /\ ScoreIdle /\ AdviceIdle /\ EntityIdle /\ ParseIdle
  /\ RestIdle

\* lines 41-105: one call, for any path
ParseAgain ==
  /\ pc = "start" /\ Len(served) < MaxCalls
  /\ \E path \in Paths :
       \E call \in {parse_cached(files[path], lru)} :
         /\ served' = Append(served, [path |-> path, cached |-> call.cached,
                                      validated |-> call.validated, out |-> call.out])
         /\ lru' = CacheAfter(files[path], lru, call)
  /\ UNCHANGED <<pc, files, pdf_paths, attempt, results, errors, summary, cleanVars, segVars,
                 expVars, scoreVars, adviceVars, entityVars, parseVars, restVars>>

NextCache == ParseAgain
SpecCache == InitCache /\ [][NextCache]_vars

\* how often the call invoked the component
Invoked(call, component) ==
  Cardinality({n \in 1..Len(call.out.calls) : call.out.calls[n] = component})
\* the path was asked for before
Repeated(n) == \E k \in 1..(n - 1) : served[k].path = served[n].path

\* C26: the cache is inert: in any sequence of calls of parse, repeated paths
\* included, no call returns a cached result, and every call that passes
\* validation invokes the PDF extractor, the cleaner and the entity extractor
\* exactly once each.
C26_CacheInert ==
  \A n \in 1..Len(served) :
    /\ ~served[n].cached
    /\ served[n].validated
         => /\ Invoked(served[n], C_pdf_extractor) = 1
            /\ Invoked(served[n], C_clean) = 1
            /\ Invoked(served[n], C_entity_extractor) = 1

-----------------------------------------------------------------------------
(* TextCleaner._is_section_header on one line.                             *)

W_CONTACT == <<"C","O","N","T","A","C","T">>
W_INFO == <<"I","N","F","O">>
W_SKILLS == <<"S","K","I","L","L","S">>
HeaderWords == {W_CONTACT, W_INFO, W_SKILLS}
\* the most words of a generated line
MaxHeaderWords == 4
RECURSIVE WordSeqs(_)
WordSeqs(n) ==
  IF n = 0 THEN {<<>>}
  ELSE LET shorter == WordSeqs(n - 1)
       IN  shorter \cup {Append(ws, w) : ws \in shorter, w \in HeaderWords}
UpperLines == {Join(ws, <<" ">>) : ws \in WordSeqs(MaxHeaderWords) \ {<<>>}}
HeaderSamples ==
  { <<"P","R","O","F","E","S","S","I","O","N","A","L"," ","S","U","M","M","A","R","Y"," ","X">>,
    <<"C","A","R","E","E","R"," ","O","V","E","R","V","I","E","W">>,
    <<"C","o","n","t","a","c","t"," ","I","n","f","o","r","m","a","t","i","o","n">>,
    <<" "," ","S","k","i","l","l","s",":"," ">>,
    <<"*","*","S","k","i","l","l","s","*","*">>,
    <<"*","*","S","K","I","L","L","S","*","*">>,
    <<"S">>, <<>> }
\* lines for the heuristic test: short and long ones, with and without
\* capitals, a colon or a contact
LikelySamples ==
  { <<"A","B">>,
    <<"A","b"," ","c">>,
    <<"W","O","R","K"," ","H","I","S","T","O","R","Y"," ","A","N","D"," ","O","T","H","E","R"," ","T","H","I","N","G","S">>,
    <<"m","y"," ","l","o","n","g"," ","l","i","n","e"," ","o","f"," ","t","e","x","t"," ","h","e","r","e">>,
    <<"o","n","e"," ","T","w","o"," ","t","h","r","e","e">>,
    <<"O","n","e"," ","T","w","o"," ","T","h","r","e","e"," ","f","o","u","r">>,
    <<"m","e"," ","a","@","b",".","c","o"," ","n","o","w",":">>,
    <<"a"," ","b"," ","c"," ","d"," ","e"," ","f",":">>,
    <<"T","H","I","S"," ","L","I","N","E"," ","H","A","S"," ","M","O","R","E"," ","T","H","A","N"," ","F","O","R","T","Y"," ","C","H","A","R","A","C","T","E","R","S"," ","I","N"," ","I","T">>,
    <<"A"," ","l","o","n","g"," ","l","i","n","e"," ","t","h","a","t"," ","h","a","s"," ","m","o","r","e"," ","t","h","a","n"," ","f","o","r","t","y"," ","c","h","a","r","a","c","t","e","r","s",":">> }
\* what follows the line: nothing, underlines of two lengths, a blank line, text
Contexts == {<<>>, <<<<"=","=","=","=">>>>, <<<<"=","=","=","=","=","=","=","=","=","=","=","=","=">>>>, <<<<>>>>, <<<<"a","b","c">>, <<"=","=","=","=">>>>}
HeaderLines ==
  UpperLines \cup {Lower(l) : l \in UpperLines} \cup {l \o <<":">> : l \in UpperLines}
    \cup {Lower(l) \o <<":">> : l \in UpperLines} \cup HeaderSamples \cup LikelySamples

InitHeader ==
  /\ pc = "start"
  /\ line \in HeaderLines
  /\ context_lines \in Contexts
  /\ header = <<>> /\ likely = FALSE
  /\ CleanIdle /\ SegIdle /\ ExpIdle /\ ScoreIdle
  /\ AdviceIdle /\ EntityIdle /\ ParseIdle /\ BatchIdle /\ NormIdle

TestHeader ==
  /\ pc = "start"
  /\ header' = _is_section_header(line)
  /\ pc' = "tested"
  /\ UNCHANGED <<line, context_lines, likely, cleanVars, segVars, expVars, scoreVars,
                 adviceVars, entityVars, parseVars, batchVars, normVars>>

\* lines 210-249
JudgeLine ==
  /\ pc = "start"
  /\ likely' = _is_likely_resume_header(line, context_lines)
  /\ pc' = "judged"
  /\ UNCHANGED <<line, context_lines, header, cleanVars, segVars, expVars, scoreVars,
                 adviceVars, entityVars, parseVars, batchVars, normVars>>

NextHeader == TestHeader \/ JudgeLine
SpecHeader == InitHeader /\ [][NextHeader]_vars

\* the sections of which one header alternative, anchored at both ends and
\* case-insensitive, matches the whole trimmed line
WholeLineNames(l) ==
  {SectionPatterns[m].name :
     m \in {m \in 1..Len(SectionPatterns) : ReMatch(SectionPatterns[m].re, Strip(l)).ok}}

\* C20: a section is named for a line only if the whole trimmed line matches
\* one of that section's header alternatives; an upper-case line with more
\* words after the header word is not given that section.
C20_WholeLineOnly ==
  (pc = "tested" /\ ~header.raised /\ header.name # <<>>)
    => header.name \in WholeLineNames(line)

-----------------------------------------------------------------------------
(* expand_synonyms and normalize_skill_terms. The synonym table            *)
(* (app.utils.synonym.SKILL_SYNONYMS) and WordNet are given: the table is  *)
(* a dict from a canonical term to the list of its synonyms.               *)

\* line 31: the synonyms left out
GenericSynonyms == {<<"u","s","e">>, <<"w","o","r","k">>, <<"g","o">>, <<"r","u","n">>}
\* line 31
filtered_syns(wordnet_syns_) ==
  {syn \in wordnet_syns_ : Len(syn) > 2 /\ syn \notin GenericSynonyms}
\* line 32: at most this many WordNet synonyms are added
MaxWordnetSynonyms == 3
\* line 32: list(filtered_syns)[:3], a set listed in no fixed order
FirstOf(syns) ==
  {some \in SUBSET syns : Cardinality(some) = Min({MaxWordnetSynonyms, Cardinality(syns)})}
\* line 28: only keys of at most this many words are looked up
MaxKeyWords == 2
\* lines 25-34: the synonyms of one key, with those taken from WordNet
all_synonyms(key, values, taken) ==
  Range(<<key>> \o values) \cup (IF Len(Words(key)) <= MaxKeyWords THEN taken ELSE {})
\* the choices line 32 leaves open, one set for each key
Takings(table, wordnet) ==
  [Keys(table) -> SUBSET UNION {wordnet[k] : k \in Keys(table)}]
\* expand_synonyms, given what line 32 takes for each key
expand_synonyms(table, taking) ==
  [n \in 1..Len(table) |->
     [k |-> table[n].k, v |-> all_synonyms(table[n].k, table[n].v, taking[table[n].k])]]
\* lines 44-47: the last key that lists the term gives its canonical form
LastWith(expanded_synonyms, term) ==
  Max({n \in 1..Len(expanded_synonyms) :
         \E synonym \in expanded_synonyms[n].v : Lower(synonym) = term})
ReverseOf(expanded_synonyms) ==
  [term \in UNION {{Lower(synonym) : synonym \in expanded_synonyms[n].v} :
                     n \in 1..Len(expanded_synonyms)} |->
     expanded_synonyms[LastWith(expanded_synonyms, term)].k]
\* lines 54-58: the image of one word
NormalizedWord(lookup, clean_word) ==
  IF clean_word \in DOMAIN lookup THEN lookup[clean_word] ELSE clean_word
\* lines 41 and 50-61
NormalizeWith(lookup, words) ==
  Join([n \in 1..Len(words) |->
          NormalizedWord(lookup, ReSub(NotWordSpaceRe, <<>>, words[n]))], <<" ">>)
normalize_skill_terms(lookup, text_) == NormalizeWith(lookup, Words(Lower(text_)))

\* synonym tables
Syn(key, values) == [k |-> key, v |-> values]
TableLower ==
  <<Syn(<<"p","y","t","h","o","n">>, <<<<"p","y">>, <<"P","y","t","h","o","n","3">>>>), Syn(<<"j","a","v","a","s","c","r","i","p","t">>, <<<<"j","s">>>>)>>
TableMixed ==
  <<Syn(<<"J","a","v","a","S","c","r","i","p","t">>, <<<<"j","s">>>>), Syn(<<"p","y","t","h","o","n">>, <<<<"p","y">>>>)>>
TableShared ==
  <<Syn(<<"j","s">>, <<<<"p","y">>>>), Syn(<<"p","y","t","h","o","n">>, <<<<"p","y">>>>)>>
TableLong ==
  <<Syn(<<"a","m","a","z","o","n"," ","w","e","b"," ","s","e","r","v","i","c","e","s">>, <<<<"a","w","s">>>>)>>
SynonymTables == {<<>>, TableLower, TableMixed, TableShared, TableLong}
\* what WordNet gives for a word: nothing, or these
WordnetSample == {<<"s","n","a","k","e">>, <<"b","o","a">>, <<"a","d","d","e","r">>, <<"s","e","r","p","e","n","t">>, <<"g","o">>, <<"p","y">>}
WordnetsFor(table) == {[k \in Keys(table) |-> syns] : syns \in {{}, WordnetSample}}
\* the words of the texts, and the most words of a generated text
NormTokens == {<<"J","S",",">>, <<"P","y">>, <<"s","n","a","k","e">>, <<"-">>, <<"c","+","+">>, <<"a","w","s">>}
MaxTokens == 2
RECURSIVE TokenSeqs(_)
TokenSeqs(n) ==
  IF n = 0 THEN {<<>>}
  ELSE LET shorter == TokenSeqs(n - 1)
       IN  shorter \cup {Append(ts, t) : ts \in shorter, t \in NormTokens}
NormTexts ==
  {Join(ts, <<" ">>) : ts \in TokenSeqs(MaxTokens)}
    \cup {<<" "," ","j","s","\t","P","Y"," ","\n"," ","s","n","a","k","e"," ">>}

InitNorm ==
  /\ pc = "start"
  /\ SKILL_SYNONYMS \in SynonymTables
  /\ wordnet_syns \in WordnetsFor(SKILL_SYNONYMS)
  /\ skill_text \in NormTexts
  /\ term_to_canonical = <<>> /\ normalized = <<>>
  /\ CleanIdle /\ SegIdle /\ ExpIdle /\ ScoreIdle
  /\ AdviceIdle /\ EntityIdle /\ ParseIdle /\ BatchIdle /\ HeaderIdle

\* lines 38-61
Normalize ==
  /\ pc = "start"
  /\ \E taking \in Takings(SKILL_SYNONYMS, wordnet_syns) :
       /\ \A k \in Keys(SKILL_SYNONYMS) : taking[k] \in FirstOf(filtered_syns(wordnet_syns[k]))
       /\ \E lookup \in {ReverseOf(expand_synonyms(SKILL_SYNONYMS, taking))} :
            /\ term_to_canonical' = lookup
            /\ normalized' = normalize_skill_terms(lookup, skill_text)
  /\ pc' = "normalized"
  /\ UNCHANGED <<SKILL_SYNONYMS, wordnet_syns, skill_text, cleanVars, segVars, expVars,
                 scoreVars, adviceVars, entityVars, parseVars, batchVars, headerVars>>

NextNorm == Normalize
SpecNorm == InitNorm /\ [][NextNorm]_vars

\* the token without its characters that are no letter, digit or underscore
Stripped(token) == SelectSeq(token, LAMBDA ch : ch \in WordCh)
\* the image of a token of the text: its canonical term, or the token stripped
ImageOf(token) ==
  IF Stripped(Lower(token)) \in DOMAIN term_to_canonical
  THEN term_to_canonical[Stripped(Lower(token))]
  ELSE Stripped(Lower(token))

\* C18: the output is the images of the tokens of the text, in their order,
\* joined by single spaces, and holds no upper-case character, whatever the
\* synonym table.
C18_TokenWiseLower ==
  pc = "normalized"
    => /\ normalized = Join([n \in 1..Len(Words(skill_text)) |-> ImageOf(Words(skill_text)[n])],
                            <<" ">>)
       /\ \A n \in 1..Len(normalized) : normalized[n] \notin UpperCh

\* the share of the words of the line that start with an upper-case letter
\* is at least 70%
MostlyTitled(words) ==
  Len(words) > 0 /\
  Cardinality({n \in 1..Len(words) : words[n][1] \in UpperCh}) * 100 >= 70 * Len(words)
\* the next line holds underline characters and nothing else
Underlined(following) ==
  /\ Len(following) > 0
  /\ Len(Strip(following[1])) > 0
  /\ \A n \in 1..Len(Strip(following[1])) : Strip(following[1])[n] \in {"=", "-", "_", "*"}
\* what the header heuristic is said to answer for the trimmed line
SaidLikely(trimmed, following) ==
  /\ Len(trimmed) <= 40
  /\ ~HasContact(trimmed)
  /\ \/ Len(Words(trimmed)) <= 4 /\ MostlyTitled(Words(trimmed))
     \/ IsUpper(trimmed)
     \/ EndsWith(trimmed, ":")
     \/ Underlined(following)

\* C21: the heuristic answers true exactly when the trimmed line has at most
\* 40 characters, holds no contact, and has at most 4 words of which 70%
\* start upper-case, or is fully upper-case, or ends with a colon, or is
\* followed by a line of underline characters only.
C21_LikelyExactly ==
  pc = "judged" => (likely <=> SaidLikely(Strip(line), context_lines))

\* the lines of the body kept under the section, none if the key is absent
BodyLines(d, section) ==
  IF section \in Keys(d) THEN Range(SplitOn(Get(d, section), "\n")) ELSE {}

\* C22: every content line, trimmed, is in the returned body of the section
\* that was current when the line was scanned, however short that section's
\* body is.
C22_ContentKept ==
  pc = "done"
    => \A n \in 1..Len(scanned) : scanned[n].line \in BodyLines(sections, scanned[n].section)

\* the bodies with which the section was closed, in document order
BodiesOf(history, section) ==
  LET at == {n \in 1..Len(history) : history[n].section = section}
  IN  [k \in 1..Cardinality(at) |-> history[Nth(at, k)].body]

\* C23: a section closed more than once has one key, whose body is the
\* bodies of its occurrences in document order, joined by a blank line.
C23_OccurrencesJoined ==
  pc = "done"
    => \A n \in 1..Len(closed) :
         Len(BodiesOf(closed, closed[n].section)) > 1
           => /\ closed[n].section \in Keys(sections)
              /\ Get(sections, closed[n].section)
                   = Join(BodiesOf(closed, closed[n].section), <<"\n", "\n">>)

\* the sections the scan produced: those returned, without the fallback and
\* without the contact summary added after it (no input line of the
\* segmenter's pool opens a section of either name)
ScanSections == Keys(sections) \ {K_content, K_contact_info}

\* C24: the fallback key content is in the result if and only if the scan
\* produced nothing or only name.
C24_FallbackIffTrivial ==
  (pc = "done" /\ Len(text) > 0)
    => (K_content \in Keys(sections) <=> ScanSections \subseteq {K_name})

\* the distinct dates of a block, and where each first appears in its text
DatesIn(section) == Range(_extract_dates(section))
Earliest(section, among) ==
  CHOOSE d \in among : \A e \in among : Find(section, d) <= Find(section, e)
\* the dates a record of the block is said to carry
SaidDates(section) ==
  LET found == DatesIn(section)
  IN  IF found = {} THEN [start_date |-> None, end_date |-> None]
      ELSE IF Cardinality(found) = 1
           THEN [start_date |-> None, end_date |-> Earliest(section, found)]
           ELSE [start_date |-> Earliest(section, found),
                 end_date |-> Earliest(section, found \ {Earliest(section, found)})]
DatedAsSaid(record, section) ==
  /\ record.start_date = SaidDates(section).start_date
  /\ record.end_date = SaidDates(section).end_date

\* C25: every experience record and every education record carries the dates
\* of its block in order of appearance in the block's text: none when the
\* block has no date, only end_date when it has one distinct date, otherwise
\* the first-appearing as start_date and the second-appearing as end_date;
\* and an education record is kept only with an institution or a degree.
C25_DatesInOrderOfAppearance ==
  /\ pc = "done"
       => \A k \in 1..Len(experience_list) :
            \E n \in 1..Len(job_sections) : DatedAsSaid(experience_list[k], job_sections[n])
  /\ pc = "educated"
       => \A k \in 1..Len(education_list) :
            /\ \E n \in 1..Len(education_sections) :
                 DatedAsSaid(education_list[k], education_sections[n])
            /\ Truthy(education_list[k].institution) \/ Truthy(education_list[k].degree)

\* the text is one line with single spaces between its words
SingleLine(t) ==
  /\ ~Contains(t, "\n")
  /\ \A n \in 1..(Len(t) - 1) : ~(t[n] \in SpaceCh /\ t[n + 1] \in SpaceCh)
  /\ Len(t) > 0 => t[1] \notin SpaceCh /\ t[Len(t)] \notin SpaceCh

\* C27: clean(T) holds no newline, no two whitespace characters in a row and
\* no whitespace at either end, so the text parse hands from clean to
\* extract_sections is a single line.
C27_CleanIsOneLine ==
  /\ pc \in {"cleaned", "recleaned"} => SingleLine(cleaned)
  /\ pc = "recleaned" => SingleLine(recleaned)
\* a text of several lines and runs of whitespace cleaned to words with
\* one space between them
C27_LinesJoined ==
  /\ pc = "cleaned"
  /\ Contains(raw_text, "\n")
  /\ \E n \in 1..(Len(raw_text) - 1) : raw_text[n] \in SpaceCh /\ raw_text[n + 1] \in SpaceCh
  /\ Contains(cleaned, " ")

\* abs(1 - length_ratio) * 50, the amount line 165 takes off 100
PenaltyOf(r) == Frac(50 * (IF r.n >= r.d THEN r.n - r.d ELSE r.d - r.n), r.d)
Same(x, y) == x.n * y.d = y.n * x.d

\* C28: length_score lies in [50, 100]: the penalty is at most 50, so the
\* max(0, ...) guard never takes effect, and the score is 100 exactly when
\* the resume has max(job word count, 100) words.
C28_LengthBetween50And100 ==
  pc = "done"
    => \E penalty \in {PenaltyOf(LengthRatioOf(resume_words, jd_words))} :
         /\ Geq(scores.length_score, Frac(50, 1)) /\ Geq(Frac(100, 1), scores.length_score)
         /\ Geq(Frac(50, 1), penalty)
         /\ Same(scores.length_score, Frac(100 * penalty.d - penalty.n, penalty.d))
         /\ Same(scores.length_score, Frac(100, 1)) <=> resume_words = Max({jd_words, 100})
\* a resume three times as long as a job text of 100 words: the ratio is
\* capped at 2 and the score is 50
C28_LongestPenalty ==
  /\ pc = "done" /\ resume_words = 3 * WordStep /\ jd_words = WordStep
  /\ Same(scores.length_score, Frac(50, 1))

\* C29: at every threshold up to 100 a job skill that is literally one of the
\* resume's skills is matched; so no missing skill is a resume skill, and
\* every critical skill of both texts is matched.
C29_LiteralSkillsMatched ==
  pc = "done"
    => /\ jd_skills \cap resume_skills \subseteq matched_skills
       /\ (jd_skills \ matched_skills) \cap resume_skills = {}
       /\ (jd_skills \cap critical_skills) \cap (resume_skills \cap critical_skills)
            \subseteq matched_skills
\* at threshold 100 a critical skill of both texts is matched with score 100
\* while another job skill is missing
C29_MatchedAtHundred ==
  /\ pc = "done" /\ threshold = 100
  /\ \E j \in jd_skills \cap resume_skills \cap critical_skills :
       j \in matched_skills /\ Same(skill_scores[j], Frac(100, 1))
  /\ jd_skills \ matched_skills # {}

\* what line 32 may take for each key of the table
Admissible(table, wordnet) ==
  {taking \in Takings(table, wordnet) :
     \A k \in Keys(table) : taking[k] \in FirstOf(filtered_syns(wordnet[k]))}

\* C30: normalize_skill_terms is deterministic: the text, the table and the
\* answers of WordNet fix the output, also when WordNet gives more than 3
\* admissible synonyms for a key.
C30_OutputFixedByInputs ==
  pc = "normalized"
    => \A taking \in Admissible(SKILL_SYNONYMS, wordnet_syns) :
         normalize_skill_terms(ReverseOf(expand_synonyms(SKILL_SYNONYMS, taking)), skill_text)
           = normalized

=============================================================================
